---------------------------- MODULE Spec2Model ----------------------------
(***************************************************************************)
(* Liirat economic-calendar alert bot: the cron pipeline of api/cron.js    *)
(* (fetch, merge, filter, cache, dedupe, send) and the subscribe           *)
(* endpoints, over the key-value store they share.                         *)
(*                                                                         *)
(* Instants are milliseconds since the epoch, as in JavaScript.  A date    *)
(* string is a record: [iso |-> ms] for a string that Date.parse accepts   *)
(* (the instant it denotes), [raw |-> text] for one it rejects.  Chars     *)
(* gives the characters of each title and chat id, so that substring,      *)
(* upper-casing and digit tests are computed and not assumed.              *)
(***************************************************************************)
EXTENDS Integers, Sequences, FiniteSets, TLC

(***************************************************************************)
(* Bounds of the model.                                                    *)
(***************************************************************************)
MaxRuns    == 2    \* handler invocations per behaviour
MaxTicks   == 1    \* clock advances per behaviour
MaxManual  == 2    \* manual events in the initial store of a single invocation
MaxCalls   == 3    \* subscribe and unsubscribe requests per behaviour
MaxRequests == 2   \* requests to the other endpoints per behaviour

(***************************************************************************)
(* Program constants.                                                      *)
(***************************************************************************)
MsPerMin      == 60000        \* windowMin * 60 * 1000
DEDUPE_EXPIRY == 172800       \* 48 * 60 * 60 seconds
CacheTtlSec   == 3600         \* { ex: 3600 }
CacheFreshMs  == 3600000      \* cacheAge < 60 * 60 * 1000
CacheHorizon  == 604800000    \* 7 * 24 * 60 * 60 * 1000
CacheSlice    == 50           \* .slice(0, 50)
DefaultLimit  == 10
DefaultWindow == 60
MinPerDay     == 1440
NaN           == -1           \* the non-finite result of Date.parse

Null == "null"

(***************************************************************************)
(* Text.  The strings the model uses, and the characters of each.          *)
(***************************************************************************)
TitleCoreCPI       == "Core CPI y/y"
TitleRetailSales   == "Retail Sales m/m"
TitleHousingStarts == "Housing Starts"

IdA   == "123456789"
IdB   == "45"
IdTpl == "{user.id}"
IdTxt == "abc"

Chars(str) ==
    CASE str = "Core CPI y/y" -> <<"C","o","r","e"," ","C","P","I"," ","y","/","y">>
      [] str = "Retail Sales m/m" ->
             <<"R","e","t","a","i","l"," ","S","a","l","e","s"," ","m","/","m">>
      [] str = "Housing Starts" -> <<"H","o","u","s","i","n","g"," ","S","t","a","r","t","s">>
      [] str = "123456789" -> <<"1","2","3","4","5","6","7","8","9">>
      [] str = "45" -> <<"4","5">>
      [] str = "{user.id}" -> <<"{","u","s","e","r",".","i","d","}">>
      [] str = "abc" -> <<"a","b","c">>
      [] str = "" -> <<>>

Digits == {"0","1","2","3","4","5","6","7","8","9"}

\* String.prototype.includes
Includes(txt, k) ==
    \E i \in 1..(Len(txt) - Len(k) + 1) : SubSeq(txt, i, i + Len(k) - 1) = k

UpperCaseChar(c) ==
    CASE c = "a" -> "A" [] c = "b" -> "B" [] c = "c" -> "C" [] c = "d" -> "D"
      [] c = "e" -> "E" [] c = "f" -> "F" [] c = "g" -> "G" [] c = "h" -> "H"
      [] c = "i" -> "I" [] c = "j" -> "J" [] c = "k" -> "K" [] c = "l" -> "L"
      [] c = "m" -> "M" [] c = "n" -> "N" [] c = "o" -> "O" [] c = "p" -> "P"
      [] c = "q" -> "Q" [] c = "r" -> "R" [] c = "s" -> "S" [] c = "t" -> "T"
      [] c = "u" -> "U" [] c = "v" -> "V" [] c = "w" -> "W" [] c = "x" -> "X"
      [] c = "y" -> "Y" [] c = "z" -> "Z" [] OTHER -> c

\* String.prototype.toUpperCase
ToUpperCase(txt) == [i \in 1..Len(txt) |-> UpperCaseChar(txt[i])]

\* /^\d+$/.test(String(x))
IsNumericId(id) ==
    LET cs == Chars(id) IN Len(cs) > 0 /\ \A i \in 1..Len(cs) : cs[i] \in Digits

(***************************************************************************)
(* Dates.                                                                  *)
(***************************************************************************)
IsoDate(ms) == [iso |-> ms]
BadDate     == [raw |-> "TBD"]

\* A date string with a UTC offset, such as 2025-10-08T15:30:00+02:00: the
\* instant its wall-clock reading would be in UTC, and the offset in minutes.
OffsetDate(ms, minutes) == [local |-> ms, offset |-> minutes]

\* A date field that is not there.
NoDate == [raw |-> ""]

\* Date.parse(s): the instant, or NaN
DateParse(d) ==
    IF "iso" \in DOMAIN d THEN d.iso
    ELSE IF "local" \in DOMAIN d THEN d.local - d.offset * MsPerMin
    ELSE NaN

IsFinite(x) == x # NaN

\* ts >= from && ts <= to, false as soon as ts is NaN
InWindowNaN(ts, from, to) == ts >= from /\ ts <= to
InWindow(ts, from, to) == IsFinite(ts) /\ InWindowNaN(ts, from, to)

\* (mutant) the ISO string is cut after the seconds, slice(0, 19)
IsoSecond(ts) == ts \div 1000

\* new Date(x).toISOString().slice(0, 16): the instant cut to its minute
IsoMinute(ts) == ts \div MsPerMin

(***************************************************************************)
(* Countries, keywords.                                                    *)
(***************************************************************************)
ALLOW_COUNTRIES ==
    {"United States", "China", "Japan", "Germany", "United Kingdom", "Euro Area"}

\* normalizeCountry: the name itself for the mapped names, null otherwise
normalizeCountry(name) == IF name \in ALLOW_COUNTRIES THEN name ELSE Null

MAJOR_KEYWORDS ==
    { <<"C","P","I">>,
      <<"N","F","P">>,
      <<"F","O","M","C">>,
      <<"R","A","T","E">>,
      <<"R","A","T","E","S">>,
      <<"I","N","T","E","R","E","S","T">>,
      <<"G","D","P">>,
      <<"P","M","I">>,
      <<"E","C","B">>,
      <<"B","O","E">>,
      <<"F","E","D">>,
      <<"N","O","N","-","F","A","R","M">>,
      <<"N","O","N","F","A","R","M">>,
      <<"U","N","E","M","P","L","O","Y","M","E","N","T">>,
      <<"J","O","B","L","E","S","S">>,
      <<"R","E","T","A","I","L">>,
      <<"S","A","L","E","S">>,
      <<"I","N","F","L","A","T","I","O","N">>,
      <<"P","A","Y","R","O","L","L">>,
      <<"E","M","P","L","O","Y","M","E","N","T">> }



(***************************************************************************)
(* Events.  A stored event has country, event, date, forecast, previous;   *)
(* the pipeline adds ts.                                                   *)
(***************************************************************************)
Event(c, t, d) ==
    [country |-> c, event |-> t, date |-> d, forecast |-> "0.3%", previous |-> "0.2%"]

\* { ...ev, ts: Date.parse(ev.date) }
Stamp(ev) ==
    [country |-> ev.country, event |-> ev.event, date |-> ev.date,
     forecast |-> ev.forecast, previous |-> ev.previous, ts |-> DateParse(ev.date)]

StampAll(evs) == [i \in 1..Len(evs) |-> Stamp(evs[i])]

\* `${ev.country}|${ev.event}|${isoMinute}`
EventKey(ev) == <<ev.country, ev.event, IsoMinute(DateParse(ev.date))>>

\* new Date(ev.date).toISOString() throws RangeError on an invalid date
KeyThrows(ev) == ~IsFinite(DateParse(ev.date))

Take(s, n) == IF Len(s) <= n THEN s ELSE SubSeq(s, 1, n)

Max(a, b) == IF a >= b THEN a ELSE b

\* uniqueMap: the first event of each key, in order of first occurrence
RECURSIVE UniqueFrom(_, _)
UniqueFrom(evs, acc) ==
    IF evs = <<>> THEN acc
    ELSE LET ev == Head(evs)
             seen == \E i \in 1..Len(acc) : EventKey(acc[i]) = EventKey(ev)
         IN UniqueFrom(Tail(evs), IF seen THEN acc ELSE Append(acc, Stamp(ev)))

\* (mutant) the combined list is stamped and not deduplicated
UniqueByKeyNone(evs) == StampAll(evs)

UniqueByKey(evs) == UniqueFrom(evs, <<>>)

\* Array.prototype.sort((a, b) => a.ts - b.ts): stable, ascending
RECURSIVE InsertByTs(_, _)
InsertByTs(s, ev) ==
    IF s = <<>> THEN <<ev>>
    ELSE IF Head(s).ts <= ev.ts THEN <<Head(s)>> \o InsertByTs(Tail(s), ev)
    ELSE <<ev>> \o s

RECURSIVE SortFrom(_, _)
SortFrom(evs, acc) ==
    IF evs = <<>> THEN acc ELSE SortFrom(Tail(evs), InsertByTs(acc, Head(evs)))

SortByTs(evs) == SortFrom(evs, <<>>)

\* (mutant) the title is matched without upper-casing it
KeywordMatchCaseSensitive(title) ==
    \E k \in MAJOR_KEYWORDS : Includes(Chars(title), k)

\* MAJOR_KEYWORDS.some(k => txt.includes(k)), txt the upper-cased title
KeywordMatch(title) ==
    LET txt == ToUpperCase(Chars(title)) IN \E k \in MAJOR_KEYWORDS : Includes(txt, k)

CountryAllowed(ev) == ev.country \in ALLOW_COUNTRIES

\* (mutant) mode=all returns before the country test
PassesFilterModeFirst(ev, mode) ==
    IF mode = "all" THEN TRUE
    ELSE IF ~CountryAllowed(ev) THEN FALSE
    ELSE KeywordMatch(ev.event)

PassesFilter(ev, mode) ==
    IF ~CountryAllowed(ev) THEN FALSE
    ELSE IF mode = "all" THEN TRUE
    ELSE KeywordMatch(ev.event)

\* all.filter(...).slice(0, limit)
FilterEvents(all, mode, limit) ==
    LET Pass(ev) == PassesFilter(ev, mode) IN Take(SelectSeq(all, Pass), limit)

\* the window filter over provider events: Date.parse, then ts >= now && ts <= end
ProviderInWindow(ev, from, to) == InWindow(DateParse(ev.date), from, to)

WindowFilter(evs, from, to) ==
    LET In(ev) == ProviderInWindow(ev, from, to) IN SelectSeq(evs, In)

\* (mutant) the window is open at its end
ManualInWindowOpenEnd(ev, from, to) == ev.ts >= from /\ ev.ts < to

\* fetchManual over the members zrange returned
ManualInWindow(ev, from, to) == ev.ts >= from /\ ev.ts <= to

ParseManual(raw, from, to) ==
    LET Finite(ev) == IsFinite(ev.ts)
        In(ev) == ManualInWindow(ev, from, to)
    IN SelectSeq(SelectSeq(StampAll(raw), Finite), In)

\* fetchTradingEconomics: the upstream answer mapped to the common shape
NormalizeRaw(e) ==
    [country |-> normalizeCountry(e.Country), event |-> e.Event, date |-> e.Date,
     forecast |-> e.Forecast, previous |-> e.Previous]

Normalize(raw) ==
    LET Kept(e) == e.country # Null
    IN SelectSeq([i \in 1..Len(raw) |-> NormalizeRaw(raw[i])], Kept)

\* The handler's parameters.  A query parameter is <<>> when absent, <<n>> when given.
\* minutes ?? (days ? days * 1440 : 60)
WindowMin(minutes, days) ==
    IF minutes # <<>> THEN minutes[1]
    ELSE IF days # <<>> /\ days[1] # 0 THEN days[1] * MinPerDay ELSE DefaultWindow

\* q.get('limit') ? Math.max(1, Number(q.get('limit'))) : 10
Limit(q) == IF q = <<>> THEN DefaultLimit ELSE Max(1, q[1])


(***************************************************************************)
(* Sample data the model draws its inputs from.                            *)
(***************************************************************************)
\* The first instant of a behaviour: later than MIN_API_INTERVAL after the epoch.
Epoch0 == 100 * MsPerMin

\* Members of econ:manual, in score order (what the admin endpoint can have stored).
ManualCPI    == Event("United States", TitleCoreCPI, IsoDate(Epoch0 + 30000))
ManualRetail == Event("United States", TitleRetailSales, IsoDate(Epoch0 + MsPerMin))

ManualPool ==
    << Event("Japan", TitleCoreCPI, IsoDate(Epoch0)),
       ManualCPI,
       Event("Brazil", TitleCoreCPI, IsoDate(Epoch0 + 30000)),
       ManualRetail,
       Event("United States", TitleHousingStarts, IsoDate(Epoch0 + MsPerMin)),
       Event("United States", TitleCoreCPI, IsoDate(Epoch0 + MsPerMin + 1)) >>

\* The members of the pool at the positions in I, in score order.
PoolMembers(I) == LET In(k) == k \in I
                      idx == SelectSeq([k \in 1..Len(ManualPool) |-> k], In)
                  IN [k \in 1..Len(idx) |-> ManualPool[idx[k]]]

\* Upstream calendar rows.
Raw(c, t, d) == [Country |-> c, Event |-> t, Date |-> d, Forecast |-> "0.3%", Previous |-> Null]

RawCPI     == Raw("United States", TitleCoreCPI, IsoDate(Epoch0 + 30000))
RawNoDate  == Raw("Germany", TitleCoreCPI, BadDate)
RawBrazil  == Raw("Brazil", TitleCoreCPI, IsoDate(Epoch0 + 30000))
RawAtEnd   == Raw("Japan", TitleRetailSales, IsoDate(Epoch0 + MsPerMin))
RawLate    == Raw("Japan", TitleHousingStarts, IsoDate(Epoch0 + MsPerMin + 1))
RawAtNow   == Raw("Germany", TitleRetailSales, IsoDate(Epoch0))

\* What the upstream call can come to: no API key, a failed call, or rows.
UpstreamFailures == {"timeout", "http_error", "bad_json", "not_array"}

UpstreamFeeds == { <<>>, <<RawCPI>>, <<RawCPI, RawNoDate>>, <<RawBrazil, RawAtNow, RawAtEnd, RawLate>> }

UpstreamAnswers ==
    {[kind |-> "nokey"]} \cup {[kind |-> k] : k \in UpstreamFailures}
      \cup {[kind |-> "ok", events |-> f] : f \in UpstreamFeeds}

SendOutcomes == {"ok", "http_error", "network_error"}

(***************************************************************************)
(* State.                                                                  *)
(***************************************************************************)
Procs == {1, 2}

VARIABLES
    clock,        \* Date.now()
    lastApiCall,  \* module variable of api/cron.js
    kvSubs,       \* econ:subs, a set
    kvUsers,      \* econ:users, a hash: id -> display name
    kvManual,     \* econ:manual, a sorted set: members in score order
    kvApiCache,   \* econ:api:cache: <<>> or <<[at, events, exp]>>
    kvUpcoming,   \* econ:cache:upcoming: <<>> or <<[at, items, exp]>>
    kvSent,       \* econ:sent:*: a set of [key, exp]
    run,          \* one handler invocation per process
    nruns,        \* invocations started
    nticks,       \* clock advances made
    call,         \* the last subscribe or unsubscribe request and its answer
    ncalls,       \* such requests made
    kvSubKeys,    \* the chat ids c with a key sub:c
    req,          \* the last request to another endpoint and its answer
    nreqs,        \* such requests made
    inflight      \* the subscribe or unsubscribe request each process is handling

kv   == <<kvSubs, kvUsers, kvManual, kvApiCache, kvUpcoming, kvSent, kvSubKeys>>
vars == <<clock, lastApiCall, kv, run, nruns, nticks, call, ncalls, req, nreqs, inflight>>

NoCall == [op |-> "none", id |-> "", status |-> 0]

\* A process that handles no subscribe or unsubscribe request.
NoFlight == [op |-> "none", id |-> "", name |-> "", pc |-> "idle", status |-> 0, count |-> 0]

\* The Authorization header of a request ("" when there is none) and the
\* value the handlers compare it with, `Bearer ${process.env.CRON_SECRET}`.
ExpectedAuth == "Bearer s3cret"
AuthHeaders  == {"", "Bearer s3cret", "Bearer wrong", "s3cret"}

NoReq == [op |-> "none", method |-> "", auth |-> "", arg |-> "", chat |-> "",
          batch |-> <<>>, pruned |-> 0, status |-> 0,
          at |-> 0, items |-> <<>>, readManual |-> FALSE, accepted |-> 0]

\* (mutant) any header that is there is accepted
AuthorizedAnyHeader(h) == h # ""

\* auth !== `Bearer ${process.env.CRON_SECRET}` is false
Authorized(h) == h = ExpectedAuth

\* A key-value cell with a TTL holds a value while its expiry is in the future.
Live(cell, t) == cell # <<>> /\ cell[1].exp > t

MarkerLive(k, t) == \E m \in kvSent : m.key = k /\ m.exp > t

IdleRun ==
    [pc |-> "idle", auth |-> "", upKind |-> "none", dryParam |-> "", dry |-> FALSE, mode |-> "major", windowMin |-> 0, limit |-> 0,
     source |-> "provider", now |-> 0, end |-> 0, validSubs |-> <<>>,
     providerUsed |-> "none", fetched |-> FALSE,
     providerEvents |-> <<>>, manualEvents |-> <<>>, events_total |-> 0,
     all |-> <<>>, filtered |-> <<>>, i |-> 0, j |-> 0, sent |-> 0,
     skipped |-> {}, attempted |-> {}, delivered |-> {}, log |-> <<>>, kvFailed |-> FALSE,
     wake |-> 0, calledAt |-> 0, resp |-> <<>>]


(***************************************************************************)
(* api/cron.js: the handler up to the send loop.                           *)
(***************************************************************************)
MIN_API_INTERVAL == 3000

\* kv.smembers returns the members in some order; the model fixes one.
IdOrder == <<IdA, IdB, IdTpl, IdTxt>>

Members(S) == LET In(x) == x \in S IN SelectSeq(IdOrder, In)

\* (mutant) the members are used as they are
ValidSubsUnfiltered(S) == Members(S)

\* subs.filter(x => /^\d+$/.test(String(x)))
ValidSubs(S) == SelectSeq(Members(S), IsNumericId)

\* The handler's query parameters.
Params ==
    [dry : {"", "1", "true", "TRUE"}, mode : {"major", "all"}, minutes : {<<>>, <<1>>}, days : {<<>>},
     limit : {<<>>, <<1>>}, source : {"provider", "manual"}]

\* ['1', 'true'].includes((q.get('dry') || '').toLowerCase())
LowerCase(v) == IF v = "TRUE" THEN "true" ELSE v

\* (mutant) only dry=1 is recognised
IsDryOnlyOne(v) == v = "1"

IsDry(v) == LowerCase(v) \in {"1", "true"}

\* res.json({ ok: true, ..., sent }) and res.status(st).json({ ok: false, error })
Summary(st, nsent) == <<[status |-> st, sent |-> nsent]>>
Failure(st, err)   == <<[status |-> st, error |-> err]>>

\* (mutant) the dry flag is not looked at before the send loop
SkipsSendLoopIgnoringDry(filtered, dry) == filtered = <<>>

\* if (!filtered.length) return ...; if (!dry) { send loop } else { log }
SkipsSendLoop(filtered, dry) == filtered = <<>> \/ dry

\* authHeader !== expectedAuth
CronUnauthorized(p, h) ==
    /\ run[p].pc \in {"idle", "done"}
    /\ ~Authorized(h)
    /\ nruns' = nruns + 1
    /\ run' = [run EXCEPT ![p] = [IdleRun EXCEPT !.pc = "done", !.auth = h,
                                                !.resp = Failure(401, "unauthorized")]]
    /\ UNCHANGED <<clock, lastApiCall, kv, nticks, call, ncalls, req, nreqs, inflight>>

\* neither LIIRAT_BOT_TOKEN nor TG_BOT_TOKEN is set
CronNoToken(p) ==
    /\ run[p].pc \in {"idle", "done"}
    /\ nruns' = nruns + 1
    /\ run' = [run EXCEPT ![p] = [IdleRun EXCEPT !.pc = "done", !.auth = ExpectedAuth,
                                                !.resp = Failure(500, "missing_bot_token")]]
    /\ UNCHANGED <<clock, lastApiCall, kv, nticks, call, ncalls, req, nreqs, inflight>>

\* The provider stage: cache check, then a fresh fetch when it is called for.
CacheUsable(t) == Live(kvApiCache, t) /\ t - kvApiCache[1].at < CacheFreshMs

CachedInWindow(now, end) ==
    IF CacheUsable(now) THEN WindowFilter(kvApiCache[1].events, now, end) ELSE <<>>

\* if (!providerEvents.length || providerUsed === 'none')
NeedFetch(now, end) == CachedInWindow(now, end) = <<>> \/ ~CacheUsable(now)

\* freshData of fetchTradingEconomics: null (here <<>>) unless rows came back
\* freshData: the rows of fetchTradingEconomics, or none when it returns null
FreshData(up) == IF up.kind = "ok" THEN Normalize(up.events) ELSE <<>>

\* rateLimitedFetch: the instant the call goes out, after the wait if any
CallTime(t) == Max(t, lastApiCall + MIN_API_INTERVAL)

\* cacheEvents of the upcoming-cache stage
CacheEvents(source, cache, manual, now, t) ==
    IF source = "provider"
    THEN IF Live(cache, t)
         THEN cache[1].events \o ParseManual(manual, now, now + CacheHorizon)
         ELSE <<>>
    ELSE ParseManual(manual, now, now + CacheHorizon)

CacheFiltered(evs) == Take(SortByTs(SelectSeq(UniqueByKey(evs), CountryAllowed)), CacheSlice)

\* A store read of the prelude that can fail, or none.
ReadFaults == {"none", "subs_read", "cache_read", "manual_read"}

\* the reads outside any try block: kv.smembers('econ:subs'), and
\* kv.get('econ:api:cache') when source is provider
ReadThrows(fault, source, valid) ==
    \/ fault = "subs_read"
    \/ fault = "cache_read" /\ source = "provider" /\ valid # <<>>

\* fetchManual answers [] when its read throws
ManualRead(fault) == IF fault = "manual_read" THEN <<>> ELSE kvManual

\* The handler from the subscriber read on, entered at `now`; when it calls
\* the provider the call goes out at tcall.  `waited` says that the handler
\* is past the sleep of rateLimitedFetch, so that the call is made.
Handler(p, q, up, fault, now, tcall, waited) ==
       LET windowMin == WindowMin(q.minutes, q.days)
           end       == now + windowMin * MsPerMin
           limit     == Limit(q.limit)
           valid     == ValidSubs(kvSubs)
           dry       == IsDry(q.dry)
           base      == [IdleRun EXCEPT !.auth = ExpectedAuth, !.dryParam = q.dry, !.dry = dry, !.mode = q.mode,
                           !.windowMin = windowMin, !.limit = limit,
                           !.source = q.source, !.now = now, !.end = end,
                           !.validSubs = valid]
       IN
       IF ReadThrows(fault, q.source, valid)
       THEN /\ run' = [run EXCEPT ![p] =
                         [base EXCEPT !.pc = "done", !.validSubs = <<>>,
                                      !.resp = Failure(500, "kv_error")]]
            /\ UNCHANGED <<clock, lastApiCall, kv, nticks, call, ncalls, req, nreqs, inflight>>
       ELSE IF valid = <<>>
       THEN /\ run' = [run EXCEPT ![p] = [base EXCEPT !.pc = "done", !.resp = Summary(200, 0)]]
            /\ UNCHANGED <<clock, lastApiCall, kv, nticks, call, ncalls, req, nreqs, inflight>>
       ELSE
       LET prov     == q.source = "provider"
           fetch    == prov /\ (waited \/ NeedFetch(now, end))
           called   == fetch /\ up.kind # "nokey"
           t1       == IF called THEN tcall ELSE now
           fresh    == IF fetch THEN FreshData(up) ELSE <<>>
           gotFresh == fresh # <<>>
           cache2   == IF gotFresh
                       THEN <<[at |-> t1, events |-> fresh, exp |-> t1 + CacheTtlSec * 1000]>>
                       ELSE kvApiCache
           provEv   == IF ~prov THEN <<>>
                       ELSE IF fetch THEN WindowFilter(fresh, now, end)
                       ELSE CachedInWindow(now, end)
           used     == IF gotFresh THEN "tradingeconomics"
                       ELSE IF prov /\ CacheUsable(now) THEN "tradingeconomics_cached"
                       ELSE "none"
           manEv    == ParseManual(ManualRead(fault), now, end)
           all      == SortByTs(UniqueByKey(provEv \o manEv))
           filtered == FilterEvents(all, q.mode, limit)
           cacheEv  == CacheEvents(q.source, cache2, ManualRead(fault), now, t1)
           throws   == \E k \in 1..Len(cacheEv) : KeyThrows(cacheEv[k])
           r1       == [base EXCEPT !.providerUsed = used, !.fetched = called,
                          !.calledAt = IF called THEN t1 ELSE 0,
                          !.upKind = IF fetch THEN up.kind ELSE "none",
                          !.providerEvents = provEv, !.manualEvents = manEv,
                          !.events_total = Len(all), !.all = all, !.filtered = filtered]
       IN
       /\ clock' = t1
       /\ lastApiCall' = IF called THEN t1 ELSE lastApiCall
       /\ kvApiCache' = cache2
       /\ UNCHANGED <<kvSubs, kvUsers, kvManual, kvSent, kvSubKeys, nticks, call, ncalls, req, nreqs, inflight>>
       /\ IF throws
          THEN /\ kvUpcoming' = kvUpcoming
               /\ run' = [run EXCEPT ![p] = [r1 EXCEPT !.pc = "done", !.resp = Failure(500, "Invalid time value")]]
          ELSE /\ kvUpcoming' = <<[at |-> t1, items |-> CacheFiltered(cacheEv),
                                   exp |-> t1 + CacheTtlSec * 1000]>>
               /\ IF SkipsSendLoop(filtered, dry)
                  THEN run' = [run EXCEPT ![p] =
                                  [r1 EXCEPT !.pc = "done", !.resp = Summary(200, 0)]]
                  ELSE run' = [run EXCEPT ![p] = [r1 EXCEPT !.pc = "check", !.i = 1]]

\* An invocation of the handler, the sleep of rateLimitedFetch included.
CronRun(p, q, up, fault) ==
    /\ run[p].pc \in {"idle", "done"}
    /\ nruns' = nruns + 1
    /\ Handler(p, q, up, fault, clock, CallTime(clock), FALSE)


(***************************************************************************)
(* api/cron.js: the send loop, one store or network call per step.         *)
(***************************************************************************)
\* `econ:sent:${ev.country}|${ev.event}|${isoMinute}`
DedupeKey(ev) == <<ev.country, ev.event, IsoMinute(ev.ts)>>

CurrentKey(r) == DedupeKey(r.filtered[r.i])

\* (mutant) a failed marker read or write ends the run with an error
NextEventFatal(r) ==
    IF r.kvFailed
    THEN [r EXCEPT !.pc = "done", !.resp = Failure(500, "kv_error")]
    ELSE IF r.i < Len(r.filtered)
    THEN [r EXCEPT !.pc = "check", !.i = r.i + 1, !.j = 0]
    ELSE [r EXCEPT !.pc = "done", !.resp = Summary(200, r.sent)]

\* the loop moves to the next event, or the handler answers with its summary
NextEvent(r) ==
    IF r.i < Len(r.filtered)
    THEN [r EXCEPT !.pc = "check", !.i = r.i + 1, !.j = 0]
    ELSE [r EXCEPT !.pc = "done", !.resp = Summary(200, r.sent)]

\* (mutant) the marker is never consulted
AlreadySentNever(k, t) == FALSE

\* const already = await kv.get(dedupeKey); if (already) continue;
AlreadySent(k, t) == MarkerLive(k, t)

DedupeCheck(p, readOk) ==
    /\ run[p].pc = "check"
    /\ LET r == run[p]
           k == CurrentKey(r)
       IN run' = [run EXCEPT ![p] =
                    IF readOk /\ AlreadySent(k, clock)
                    THEN NextEvent([r EXCEPT !.skipped = @ \cup {k}])
                    ELSE [r EXCEPT !.pc = "send", !.j = 1,
                                   !.kvFailed = @ \/ ~readOk]]
    /\ UNCHANGED <<clock, lastApiCall, kv, nruns, nticks, call, ncalls, req, nreqs, inflight>>

\* (mutant) every attempt is counted, as in the manual-only variant of the handler
CountedAlways(sent, outcome) == sent + 1

\* if (!sendRes.ok) log; else sent++  (a thrown error is caught and logged)
Counted(sent, outcome) == IF outcome = "ok" THEN sent + 1 ELSE sent

SendOne(p, outcome) ==
    /\ run[p].pc = "send"
    /\ LET r    == run[p]
           pair == <<CurrentKey(r), r.validSubs[r.j]>>
           r1   == [r EXCEPT !.attempted = @ \cup {pair}, !.log = Append(@, pair),
                             !.delivered = IF outcome = "ok" THEN @ \cup {pair} ELSE @,
                             !.sent = Counted(r.sent, outcome)]
       IN run' = [run EXCEPT ![p] =
                    IF r.j < Len(r.validSubs)
                    THEN [r1 EXCEPT !.j = r.j + 1]
                    ELSE [r1 EXCEPT !.pc = "mark"]]
    /\ UNCHANGED <<clock, lastApiCall, kv, nruns, nticks, call, ncalls, req, nreqs, inflight>>

\* await kv.set(dedupeKey, '1', { ex: DEDUPE_EXPIRY })
SetMarker(k, t) ==
    {m \in kvSent : m.key # k} \cup {[key |-> k, exp |-> t + DEDUPE_EXPIRY * 1000]}

MarkSent(p, writeOk) ==
    /\ run[p].pc = "mark"
    /\ LET r == run[p]
       IN /\ kvSent' = IF writeOk THEN SetMarker(CurrentKey(r), clock) ELSE kvSent
          /\ run' = [run EXCEPT ![p] = NextEvent([r EXCEPT !.kvFailed = @ \/ ~writeOk])]
    /\ UNCHANGED <<clock, lastApiCall, kvSubs, kvUsers, kvManual, kvApiCache,
                   kvUpcoming, kvSubKeys, nruns, nticks, call, ncalls, req, nreqs, inflight>>

(***************************************************************************)
(* Time.  The store drops a key when its TTL has run out.                  *)
(***************************************************************************)
TickSteps == {1, MsPerMin}

Expire(cell, t) == IF Live(cell, t) THEN cell ELSE <<>>

\* The clock moves on by d milliseconds.
Advance(d) ==
    /\ nticks' = nticks + 1
    /\ clock' = clock + d
    /\ kvApiCache' = Expire(kvApiCache, clock')
    /\ kvUpcoming' = Expire(kvUpcoming, clock')
    /\ kvSent' = {m \in kvSent : m.exp > clock'}
    /\ UNCHANGED <<lastApiCall, kvSubs, kvUsers, kvManual, kvSubKeys, run, nruns,
                   call, ncalls, req, nreqs, inflight>>

Tick(d) == nticks < MaxTicks /\ Advance(d)

(***************************************************************************)
(* The pipeline, one run at a time and no store failure: runs follow one   *)
(* another on a store that starts with subscribers and manual events.      *)
(***************************************************************************)
InitSubs == { {IdA}, {IdA, IdB} }

InitManual == { <<ManualCPI>>, <<ManualCPI, ManualRetail>> }

SpecParams ==
    [dry : {"", "1"}, mode : {"major"}, minutes : {<<>>}, days : {<<>>},
     limit : {<<>>, <<1>>}, source : {"provider", "manual"}]

SpecUpstream == {[kind |-> "timeout"], [kind |-> "ok", events |-> <<RawCPI>>]}

Init ==
    /\ clock = Epoch0
    /\ lastApiCall = 0
    /\ kvSubs \in InitSubs
    /\ kvUsers = [id \in kvSubs |-> "unknown"]
    /\ kvManual \in InitManual
    /\ kvApiCache = <<>>
    /\ kvUpcoming = <<>>
    /\ kvSent = {}
    /\ run = [p \in Procs |-> IdleRun]
    /\ nruns = 0
    /\ nticks = 0
    /\ call = NoCall
    /\ ncalls = 0
    /\ kvSubKeys = {}
    /\ req = NoReq
    /\ nreqs = 0
    /\ inflight = [p \in Procs |-> NoFlight]

Next ==
    \/ nruns < MaxRuns /\ \E h \in AuthHeaders : CronUnauthorized(1, h)
    \/ nruns < MaxRuns /\ CronNoToken(1)
    \/ nruns < MaxRuns /\ \E q \in SpecParams, up \in SpecUpstream : CronRun(1, q, up, "none")
    \/ DedupeCheck(1, TRUE)
    \/ \E o \in SendOutcomes : SendOne(1, o)
    \/ MarkSent(1, TRUE)
    \/ \E d \in TickSteps : Tick(d)

Spec == Init /\ [][Next]_vars

(***************************************************************************)
(* One invocation of the handler, for every parameter combination, every   *)
(* upstream answer and store failure, from the stores earlier runs and the *)
(* other endpoints can have left.                                          *)
(***************************************************************************)
OneSubs == { {}, {IdTpl}, {IdA}, {IdA, IdTpl} }

OneManual ==
    { PoolMembers(I) : I \in {J \in SUBSET (1..Len(ManualPool)) : Cardinality(J) <= MaxManual} }

\* econ:api:cache as a run one minute earlier wrote it
CachedFeed(rows) ==
    <<[at |-> Epoch0 - MsPerMin, events |-> Normalize(rows),
       exp |-> Epoch0 - MsPerMin + CacheTtlSec * 1000]>>

OneApiCache == { <<>>, CachedFeed(<<RawCPI>>), CachedFeed(<<RawCPI, RawNoDate>>),
                 CachedFeed(<<RawLate, RawNoDate>>) }

\* econ:sent:* as a run one minute earlier wrote it
OneSent ==
    { {}, {[key |-> DedupeKey(Stamp(ManualCPI)),
            exp |-> Epoch0 - MsPerMin + DEDUPE_EXPIRY * 1000]} }

InitOne ==
    /\ clock = Epoch0
    /\ lastApiCall = 0
    /\ kvSubs \in OneSubs
    /\ kvUsers = [id \in kvSubs |-> "unknown"]
    /\ kvManual \in OneManual
    /\ kvApiCache \in OneApiCache
    /\ kvUpcoming = <<>>
    /\ kvSent \in OneSent
    /\ run = [p \in Procs |-> IdleRun]
    /\ nruns = 0
    /\ nticks = 0
    /\ call = NoCall
    /\ ncalls = 0
    /\ kvSubKeys = {}
    /\ req = NoReq
    /\ nreqs = 0
    /\ inflight = [p \in Procs |-> NoFlight]

NextOne ==
    \/ nruns = 0 /\ \E h \in AuthHeaders : CronUnauthorized(1, h)
    \/ nruns = 0 /\ CronNoToken(1)
    \/ nruns = 0 /\ \E q \in Params, up \in UpstreamAnswers : CronRun(1, q, up, "none")
    \/ \E ok \in BOOLEAN : DedupeCheck(1, ok)
    \/ \E o \in SendOutcomes : SendOne(1, o)
    \/ \E ok \in BOOLEAN : MarkSent(1, ok)

SpecOne == InitOne /\ [][NextOne]_vars

(***************************************************************************)
(* Two live invocations, the second (process 2) after the first (process   *)
(* 1) has answered, with failing sends, failing marker reads and writes    *)
(* and failing store reads.                                                *)
(***************************************************************************)
FaultParams ==
    [dry : {""}, mode : {"major"}, minutes : {<<>>}, days : {<<>>},
     limit : {<<>>}, source : {"provider", "manual"}]

InitFaults ==
    /\ clock = Epoch0
    /\ lastApiCall = 0
    /\ kvSubs \in InitSubs
    /\ kvUsers = [id \in kvSubs |-> "unknown"]
    /\ kvManual \in InitManual
    /\ kvApiCache = <<>>
    /\ kvUpcoming = <<>>
    /\ kvSent = {}
    /\ run = [p \in Procs |-> IdleRun]
    /\ nruns = 0
    /\ nticks = 0
    /\ call = NoCall
    /\ ncalls = 0
    /\ kvSubKeys = {}
    /\ req = NoReq
    /\ nreqs = 0
    /\ inflight = [p \in Procs |-> NoFlight]

NextFaults ==
    \/ nruns = 0 /\ \E q \in FaultParams, up \in SpecUpstream, f \in ReadFaults :
                        CronRun(1, q, up, f)
    \/ nruns = 1 /\ run[1].pc = "done"
                 /\ \E q \in FaultParams, up \in SpecUpstream, f \in ReadFaults :
                        CronRun(2, q, up, f)
    \/ \E p \in Procs, ok \in BOOLEAN : DedupeCheck(p, ok)
    \/ \E p \in Procs, o \in SendOutcomes : SendOne(p, o)
    \/ \E p \in Procs, ok \in BOOLEAN : MarkSent(p, ok)

SpecFaults == InitFaults /\ [][NextFaults]_vars


(***************************************************************************)
(* The merge of provider and manual events: runs one after another on     *)
(* reports of one title that are seconds, minutes or a day apart.          *)
(***************************************************************************)
RawJitter  == Raw("United States", TitleCoreCPI, IsoDate(Epoch0 + 31000))
RawEdge    == Raw("United States", TitleCoreCPI, IsoDate(Epoch0 + 59000))
RawOver    == Raw("United States", TitleCoreCPI, IsoDate(Epoch0 + 61000))
RawNextDay == Raw("United States", TitleCoreCPI, IsoDate(Epoch0 + 30000 + 1440 * MsPerMin))

MergeFeeds ==
    { <<RawCPI, RawJitter>>, <<RawEdge, RawOver>>, <<RawCPI, RawNextDay>>,
      <<RawJitter, RawCPI, RawOver>> }

MergeUpstream == {[kind |-> "timeout"]} \cup {[kind |-> "ok", events |-> f] : f \in MergeFeeds}

MergeParams ==
    [dry : {""}, mode : {"major", "all"}, minutes : {<<>>}, days : {<<>>, <<2>>},
     limit : {<<>>}, source : {"provider", "manual"}]

InitMerge ==
    /\ clock = Epoch0
    /\ lastApiCall = 0
    /\ kvSubs = {IdA}
    /\ kvUsers = [id \in kvSubs |-> "unknown"]
    /\ kvManual \in { <<>>, <<ManualCPI>>, <<ManualCPI, ManualRetail>> }
    /\ kvApiCache = <<>>
    /\ kvUpcoming = <<>>
    /\ kvSent = {}
    /\ run = [p \in Procs |-> IdleRun]
    /\ nruns = 0
    /\ nticks = 0
    /\ call = NoCall
    /\ ncalls = 0
    /\ kvSubKeys = {}
    /\ req = NoReq
    /\ nreqs = 0
    /\ inflight = [p \in Procs |-> NoFlight]

NextMerge ==
    \/ nruns < MaxRuns /\ \E q \in MergeParams, up \in MergeUpstream : CronRun(1, q, up, "none")
    \/ DedupeCheck(1, TRUE)
    \/ SendOne(1, "ok")
    \/ MarkSent(1, TRUE)

SpecMerge == InitMerge /\ [][NextMerge]_vars

(***************************************************************************)
(* Overlapping invocations: two instances of the handler (a scheduled run  *)
(* and a manual trigger, or a slow run and the next scheduled one) work on *)
(* the same store, their marker reads, sends and marker writes interleaved *)
(* in every order.                                                         *)
(***************************************************************************)
OverlapParams ==
    [dry : {""}, mode : {"major"}, minutes : {<<>>}, days : {<<>>},
     limit : {<<>>, <<1>>}, source : {"manual"}]

OverlapOutcomes == {"ok", "http_error"}

InitOverlap ==
    /\ clock = Epoch0
    /\ lastApiCall = 0
    /\ kvSubs \in InitSubs
    /\ kvUsers = [id \in kvSubs |-> "unknown"]
    /\ kvManual \in InitManual
    /\ kvApiCache = <<>>
    /\ kvUpcoming = <<>>
    /\ kvSent = {}
    /\ run = [p \in Procs |-> IdleRun]
    /\ nruns = 0
    /\ nticks = 0
    /\ call = NoCall
    /\ ncalls = 0
    /\ kvSubKeys = {}
    /\ req = NoReq
    /\ nreqs = 0
    /\ inflight = [p \in Procs |-> NoFlight]

NextOverlap ==
    \/ nruns < MaxRuns /\ \E p \in Procs, q \in OverlapParams :
                             CronRun(p, q, [kind |-> "timeout"], "none")
    \/ \E p \in Procs : DedupeCheck(p, TRUE)
    \/ \E p \in Procs, o \in OverlapOutcomes : SendOne(p, o)
    \/ \E p \in Procs : MarkSent(p, TRUE)
    \/ Tick(1)

SpecOverlap == InitOverlap /\ [][NextOverlap]_vars

(***************************************************************************)
(* The schedule: live runs with the same parameters, one at every tick,    *)
(* each after the one before has answered, over a store that does not      *)
(* fail.  Run k is process 1 for odd k and process 2 for even k.           *)
(***************************************************************************)
ManualJapanCPI == Event("Japan", TitleCoreCPI, IsoDate(Epoch0 + 30000))

\* equal scores are in the order of the members, '{"country":"Japan"' first
ScheduleManual == { <<ManualCPI>>, <<ManualJapanCPI, ManualCPI>> }

ScheduleParams ==
    [dry : {""}, mode : {"major", "all"}, minutes : {<<>>}, days : {<<>>},
     limit : {<<>>, <<1>>}, source : {"manual"}]

Turn == IF nruns % 2 = 0 THEN 1 ELSE 2

\* the parameters of the run before, when there was one
SameParams(q) ==
    nruns > 0 =>
       LET r == run[3 - Turn]
       IN q.mode = r.mode /\ Limit(q.limit) = r.limit /\ q.source = r.source
             /\ WindowMin(q.minutes, q.days) = r.windowMin

AllAnswered == \A p \in Procs : run[p].pc \in {"idle", "done"}

InitSchedule ==
    /\ clock = Epoch0
    /\ lastApiCall = 0
    /\ kvSubs \in InitSubs
    /\ kvUsers = [id \in kvSubs |-> "unknown"]
    /\ kvManual \in ScheduleManual
    /\ kvApiCache = <<>>
    /\ kvUpcoming = <<>>
    /\ kvSent = {}
    /\ run = [p \in Procs |-> IdleRun]
    /\ nruns = 0
    /\ nticks = 0
    /\ call = NoCall
    /\ ncalls = 0
    /\ kvSubKeys = {}
    /\ req = NoReq
    /\ nreqs = 0
    /\ inflight = [p \in Procs |-> NoFlight]

NextSchedule ==
    \/ nruns < MaxRuns /\ nruns = nticks /\ AllAnswered
          /\ \E q \in ScheduleParams :
                SameParams(q) /\ CronRun(Turn, q, [kind |-> "timeout"], "none")
    \/ \E p \in Procs : DedupeCheck(p, TRUE)
    \/ \E p \in Procs : SendOne(p, "ok")
    \/ \E p \in Procs : MarkSent(p, TRUE)
    \/ nticks < nruns /\ AllAnswered /\ \E d \in TickSteps : Advance(d)

SpecSchedule == InitSchedule /\ [][NextSchedule]_vars

(***************************************************************************)
(* The rate gate with invocations in the same process (a warm instance     *)
(* serving requests that overlap): rateLimitedFetch reads the clock and    *)
(* lastApiCall, sleeps when the last call is too recent, and after the     *)
(* sleep sets lastApiCall and calls.  The sleep separates two steps.       *)
(***************************************************************************)
GateParams ==
    [dry : {"", "1"}, mode : {"major"}, minutes : {<<>>}, days : {<<>>},
     limit : {<<>>}, source : {"provider", "manual"}]

GateUpstream == {[kind |-> "timeout"], [kind |-> "ok", events |-> <<RawCPI>>]}

GateSteps == {1000, 2000, MIN_API_INTERVAL}

\* the invocation reaches rateLimitedFetch
ReachesGate(q) ==
    /\ q.source = "provider"
    /\ ValidSubs(kvSubs) # <<>>
    /\ NeedFetch(clock, clock + WindowMin(q.minutes, q.days) * MsPerMin)

\* elapsed < MIN_API_INTERVAL
GateSleeps(q) == ReachesGate(q) /\ clock - lastApiCall < MIN_API_INTERVAL

\* the handler up to the await of the sleep: the timer is set for
\* MIN_API_INTERVAL - elapsed from now
GateEnter(p, q) ==
    /\ run[p].pc \in {"idle", "done"}
    /\ GateSleeps(q)
    /\ nruns' = nruns + 1
    /\ run' = [run EXCEPT ![p] =
                 [IdleRun EXCEPT !.pc = "wait", !.auth = ExpectedAuth, !.dryParam = q.dry,
                                 !.dry = IsDry(q.dry), !.mode = q.mode,
                                 !.windowMin = WindowMin(q.minutes, q.days),
                                 !.limit = Limit(q.limit), !.source = q.source,
                                 !.now = clock,
                                 !.end = clock + WindowMin(q.minutes, q.days) * MsPerMin,
                                 !.validSubs = ValidSubs(kvSubs),
                                 !.wake = clock + (MIN_API_INTERVAL - (clock - lastApiCall))]]
    /\ UNCHANGED <<clock, lastApiCall, kv, nticks, call, ncalls, req, nreqs, inflight>>

\* the parameters of the invocation that sleeps
SleeperParams(r, q) ==
    /\ q.dry = r.dryParam /\ q.mode = r.mode /\ q.source = r.source
    /\ WindowMin(q.minutes, q.days) = r.windowMin /\ Limit(q.limit) = r.limit

\* the timer has fired: lastApiCall = Date.now(), the call, and the handler
\* to the send loop
GateWake(p, q, up) ==
    /\ run[p].pc = "wait"
    /\ clock >= run[p].wake
    /\ SleeperParams(run[p], q)
    /\ nruns' = nruns
    /\ Handler(p, q, up, "none", run[p].now, clock, TRUE)

InitGate ==
    /\ clock = Epoch0
    /\ lastApiCall \in {0, Epoch0 - 1000}
    /\ kvSubs = {IdA}
    /\ kvUsers = [id \in kvSubs |-> "unknown"]
    /\ kvManual \in { <<>>, <<ManualCPI>> }
    /\ kvApiCache = <<>>
    /\ kvUpcoming = <<>>
    /\ kvSent = {}
    /\ run = [p \in Procs |-> IdleRun]
    /\ nruns = 0
    /\ nticks = 0
    /\ call = NoCall
    /\ ncalls = 0
    /\ kvSubKeys = {}
    /\ req = NoReq
    /\ nreqs = 0
    /\ inflight = [p \in Procs |-> NoFlight]

NextGate ==
    \/ nruns < MaxRuns /\ \E p \in Procs, q \in GateParams, up \in GateUpstream :
                             ~GateSleeps(q) /\ CronRun(p, q, up, "none")
    \/ nruns < MaxRuns /\ \E p \in Procs, q \in GateParams : GateEnter(p, q)
    \/ \E p \in Procs, q \in GateParams, up \in GateUpstream : GateWake(p, q, up)
    \/ \E p \in Procs : DedupeCheck(p, TRUE)
    \/ \E p \in Procs : SendOne(p, "ok")
    \/ \E p \in Procs : MarkSent(p, TRUE)
    \/ \E d \in GateSteps : Tick(d)

SpecGate == InitGate /\ [][NextGate]_vars

(***************************************************************************)
(* The provider variants of the cron handler: the FMP handlers             *)
(* (src/unnamed/part_010 for the edge runtime, part_016 for node, the same *)
(* steps) and the TradingEconomics handler (part_015).  An invocation is   *)
(* one step.                                                               *)
(***************************************************************************)
VariantCacheTtlSec == 120     \* { ex: 120 }
VariantLateMs      == 300000  \* now - 5 * 60 * 1000
FmpDefaultWindow   == 15      \* Number(searchParams.get('minutes') || 15)
TeDefaultDays      == 2       \* Number(searchParams.get('days') || 2)
TeDefaultLimit     == 3       \* Number(searchParams.get('limit') || 3)
TeMaxLimit         == 10

Variants == {"fmp", "te"}

\* A calendar row: country, event, date and impact (TE: Importance).
VariantRow(c, t, d, imp) == [country |-> c, event |-> t, date |-> d, impact |-> imp]

LowerLetters ==
    {"a","b","c","d","e","f","g","h","i","j","k","l","m",
     "n","o","p","q","r","s","t","u","v","w","x","y","z"}

LowerCaseChar(c) ==
    IF \E l \in LowerLetters : UpperCaseChar(l) = c /\ l # c
    THEN CHOOSE l \in LowerLetters : UpperCaseChar(l) = c
    ELSE c

\* String.prototype.toLowerCase
ToLowerCase(txt) == [i \in 1..Len(txt) |-> LowerCaseChar(txt[i])]

\* String(v).toLowerCase() of an impact value
LowerImpact(v) ==
    CASE v = "High" -> "high" [] v = "Medium" -> "medium" [] v = "Low" -> "low"
      [] OTHER -> v

\* highImpact of the FMP handlers
HighImpact(v) == LowerImpact(v) \in {"high", "3", "high impact"}

\* isHighOrMed of the TE handler
HighOrMed(v) == LowerImpact(v) \in {"3", "high", "2", "medium"}

TE_MAJOR_KEYS ==
    { <<"n","o","n","-","f","a","r","m"," ","p","a","y","r","o","l","l">>,
      <<"n","f","p">>,
      <<"f","o","m","c">>,
      <<"f","e","d"," ","i","n","t","e","r","e","s","t"," ","r","a","t","e">>,
      <<"f","e","d","e","r","a","l"," ","f","u","n","d","s"," ","r","a","t","e">>,
      <<"i","n","t","e","r","e","s","t"," ","r","a","t","e"," ","d","e","c","i","s","i","o","n">>,
      <<"e","c","b"," ","i","n","t","e","r","e","s","t"," ","r","a","t","e">>,
      <<"b","o","e"," ","i","n","t","e","r","e","s","t"," ","r","a","t","e">>,
      <<"b","a","n","k"," ","o","f"," ","e","n","g","l","a","n","d"," ","i","n","t","e","r","e","s","t"," ","r","a","t","e">>,
      <<"c","p","i">>,
      <<"c","o","n","s","u","m","e","r"," ","p","r","i","c","e"," ","i","n","d","e","x">>,
      <<"c","o","r","e"," ","c","p","i">>,
      <<"i","n","f","l","a","t","i","o","n"," ","r","a","t","e">>,
      <<"u","n","e","m","p","l","o","y","m","e","n","t"," ","r","a","t","e">> }

\* isMajor: MAJOR_KEYS.some(k => s.includes(k)), s the lower-cased name
IsMajor(title) ==
    LET txt == ToLowerCase(Chars(title)) IN \E k \in TE_MAJOR_KEYS : Includes(txt, k)

\* allowedCountries for the default countries=US,EA,UK
TeAllowedCountries == {"United States", "Euro Area", "United Kingdom"}

\* the row with the instant parseUTC gives for its date
Parsed(e) ==
    [country |-> e.country, event |-> e.event, date |-> e.date, impact |-> e.impact,
     ts |-> DateParse(e.date)]

\* FMP: high impact, a date that parses, t > start && t <= end
FmpUpcoming(rows, now, end) ==
    LET Keep(e) == /\ HighImpact(e.impact)
                   /\ IsFinite(e.ts)
                   /\ e.ts > now - VariantLateMs /\ e.ts <= end
    IN SelectSeq([i \in 1..Len(rows) |-> Parsed(rows[i])], Keep)

\* TE: importance, country, window, the major filter unless mode=all, sort, limit
TeSelected(rows, now, end, mode, limit) ==
    LET Norm(e)   == e.country # "" /\ e.event # "" /\ HighOrMed(e.impact)
        InWin(e)  == /\ e.country \in TeAllowedCountries
                     /\ IsFinite(e.ts)
                     /\ e.ts >= now /\ e.ts <= end
        Major(e)  == mode = "all" \/ IsMajor(e.event)
        upcoming  == SelectSeq(SelectSeq([i \in 1..Len(rows) |-> Parsed(rows[i])], Norm), InWin)
    IN Take(SortByTs(SelectSeq(upcoming, Major)), limit)

\* Number(searchParams.get('minutes') || 15)
FmpWindowMin(minutes) == IF minutes # <<>> /\ minutes[1] # 0 THEN minutes[1] ELSE FmpDefaultWindow

\* minutesParam > 0 ? minutesParam : daysParam * 24 * 60
TeWindowMin(minutes) ==
    IF minutes # <<>> /\ minutes[1] > 0 THEN minutes[1] ELSE TeDefaultDays * MinPerDay

\* Math.max(1, Math.min(10, Number(searchParams.get('limit') || 3)))
TeLimit(q) ==
    LET n == IF q # <<>> /\ q[1] # 0 THEN q[1] ELSE TeDefaultLimit
    IN Max(1, IF n <= TeMaxLimit THEN n ELSE TeMaxLimit)

\* searchParams.get('dry') === '1'
VariantDry(v) == v = "1"

\* `sent:${ev.country}:${ev.event}:${ev.date}`
VariantKey(ev) == <<"sent", ev.country, ev.event, ev.date>>

\* await kv.set(dedupeKey, '1', { ex: 48 * 3600 })
VariantMark(marks, k, t) ==
    {m \in marks : m.key # k} \cup {[key |-> k, exp |-> t + DEDUPE_EXPIRY * 1000]}

\* The send loop: an event whose marker is there is passed over; any other
\* is sent to every subscriber unless the run is dry, and then marked.
RECURSIVE VariantLoop(_, _, _, _)
VariantLoop(evs, dry, t, st) ==
    IF evs = <<>> THEN st
    ELSE LET k == VariantKey(Head(evs))
         IN IF \E m \in st.marks : m.key = k /\ m.exp > t
            THEN VariantLoop(Tail(evs), dry, t, [st EXCEPT !.skipped = @ \cup {k}])
            ELSE VariantLoop(Tail(evs), dry, t,
                    [st EXCEPT !.marks = VariantMark(@, k, t),
                               !.sentFor = IF dry THEN @ ELSE Append(@, k)])

VRowCPI   == VariantRow("United States", TitleCoreCPI, IsoDate(Epoch0 + 30000), "High")
VRowLow   == VariantRow("United States", TitleRetailSales, IsoDate(Epoch0 + 30000), "Low")
VRowLate  == VariantRow("United States", TitleRetailSales, IsoDate(Epoch0 - MsPerMin), "3")
VRowJapan == VariantRow("Japan", TitleCoreCPI, IsoDate(Epoch0 + 30000), "High")
VRowBad   == VariantRow("United States", TitleCoreCPI, BadDate, "High")

VariantOk    == [kind |-> "ok", events |-> <<VRowCPI>>]
VariantOkAll == [kind |-> "ok", events |-> <<VRowJapan, VRowLow, VRowCPI, VRowLate, VRowBad>>]

VariantUpstream == { [kind |-> "http_error"], [kind |-> "timeout"], VariantOk, VariantOkAll }

\* the request carries x-vercel-cron: 1, or the bearer secret
VariantAuthorized(h, cron) == cron \/ h = ExpectedAuth

VariantRun(p, v, h, cron, q, up, sendThrows) ==
    /\ run[p].pc \in {"idle", "done"}
    /\ nruns' = nruns + 1
    /\ LET now       == clock
           windowMin == IF v = "fmp" THEN FmpWindowMin(q.minutes) ELSE TeWindowMin(q.minutes)
           end       == now + windowMin * MsPerMin
           valid     == ValidSubs(kvSubs)
           dry       == VariantDry(q.dry)
           limit     == IF v = "fmp" THEN 0 ELSE TeLimit(q.limit)
           base      == [IdleRun EXCEPT !.pc = "done", !.auth = h, !.dryParam = q.dry,
                                        !.dry = dry, !.mode = q.mode, !.windowMin = windowMin,
                                        !.limit = limit, !.now = now, !.end = end,
                                        !.providerUsed = v]
       IN
       IF ~VariantAuthorized(h, cron)
       THEN /\ run' = [run EXCEPT ![p] = [base EXCEPT !.resp = Failure(401, "unauthorized")]]
            /\ UNCHANGED <<clock, lastApiCall, kv, nticks, call, ncalls, req, nreqs, inflight>>
       ELSE IF valid = <<>>
       THEN /\ run' = [run EXCEPT ![p] = [base EXCEPT !.resp = Summary(200, 0)]]
            /\ UNCHANGED <<clock, lastApiCall, kv, nticks, call, ncalls, req, nreqs, inflight>>
       ELSE IF up.kind # "ok"
       THEN /\ run' = [run EXCEPT ![p] =
                         [base EXCEPT !.validSubs = valid, !.upKind = up.kind,
                                      !.resp = IF up.kind = "http_error"
                                               THEN Failure(502, "api error")
                                               ELSE Failure(500, "fetch error")]]
            /\ UNCHANGED <<clock, lastApiCall, kv, nticks, call, ncalls, req, nreqs, inflight>>
       ELSE
       LET selected == IF v = "fmp" THEN FmpUpcoming(up.events, now, end)
                       ELSE TeSelected(up.events, now, end, q.mode, limit)
           st       == VariantLoop(selected, dry, now,
                                   [marks |-> kvSent, sentFor |-> <<>>, skipped |-> {}])
           thrown   == sendThrows /\ st.sentFor # <<>>
           pairs    == {<<st.sentFor[n], valid[j]>> :
                           n \in 1..Len(st.sentFor), j \in 1..Len(valid)}
           r1       == [base EXCEPT !.validSubs = valid, !.upKind = "ok", !.fetched = TRUE,
                                    !.events_total = Len(up.events), !.filtered = selected]
       IN
       /\ kvUpcoming' = <<[at |-> now, items |-> Take(selected, CacheSlice),
                           exp |-> now + VariantCacheTtlSec * 1000]>>
       /\ IF thrown
          THEN /\ kvSent' = kvSent
               /\ run' = [run EXCEPT ![p] = [r1 EXCEPT !.resp = Failure(500, "unexpected")]]
          ELSE /\ kvSent' = st.marks
               /\ run' = [run EXCEPT ![p] =
                            [r1 EXCEPT !.skipped = st.skipped, !.attempted = pairs,
                                       !.delivered = pairs,
                                       !.sent = Len(st.sentFor) * Len(valid),
                                       !.resp = Summary(200, Len(st.sentFor) * Len(valid))]]
       /\ UNCHANGED <<clock, lastApiCall, kvSubs, kvUsers, kvManual, kvApiCache, kvSubKeys,
                      nticks, call, ncalls, req, nreqs, inflight>>

VariantSubs == { {IdA}, {IdA, IdB}, {IdTpl} }

InitVariants ==
    /\ clock = Epoch0
    /\ lastApiCall = 0
    /\ kvSubs \in VariantSubs
    /\ kvUsers = [id \in kvSubs |-> "unknown"]
    /\ kvManual = <<>>
    /\ kvApiCache = <<>>
    /\ kvUpcoming = <<>>
    /\ kvSent = {}
    /\ run = [p \in Procs |-> IdleRun]
    /\ nruns = 0
    /\ nticks = 0
    /\ call = NoCall
    /\ ncalls = 0
    /\ kvSubKeys = {}
    /\ req = NoReq
    /\ nreqs = 0
    /\ inflight = [p \in Procs |-> NoFlight]

\* A request: the variant, the headers, the query, what the provider answers
\* and whether a send to Telegram throws.
VariantRequest(v, h, cron, q, up, sendThrows) ==
    [v |-> v, h |-> h, cron |-> cron, q |-> q, up |-> up, sendThrows |-> sendThrows]

VariantQuery(dry, mode, minutes, limit) ==
    [dry |-> dry, mode |-> mode, minutes |-> minutes, limit |-> limit]

PlainQuery == VariantQuery("", "major", <<>>, <<>>)

VariantRequests ==
    { VariantRequest(v, "", TRUE, VariantQuery(dry, "major", <<>>, <<>>), up, FALSE) :
         v \in Variants, dry \in {"", "1", "true"},
         up \in {u \in VariantUpstream : u.kind = "ok"} }
    \cup { VariantRequest("fmp", h, FALSE, PlainQuery, VariantOk, FALSE) :
              h \in {"", ExpectedAuth} }
    \cup { VariantRequest("te", ExpectedAuth, FALSE, q, VariantOkAll, FALSE) :
              q \in { VariantQuery("", "all", <<>>, <<>>), VariantQuery("", "all", <<>>, <<1>>),
                      VariantQuery("1", "major", <<1>>, <<>>) } }
    \cup { VariantRequest("fmp", "", TRUE, PlainQuery, up, FALSE) :
              up \in {u \in VariantUpstream : u.kind # "ok"} }
    \cup { VariantRequest(v, "", TRUE, PlainQuery, VariantOk, TRUE) : v \in Variants }

NextVariants ==
    \/ nruns < MaxRuns
          /\ \E x \in VariantRequests :
                VariantRun(Turn, x.v, x.h, x.cron, x.q, x.up, x.sendThrows)
    \/ Tick(1)

SpecVariants == InitVariants /\ [][NextVariants]_vars

(***************************************************************************)
(* The subscribe and unsubscribe endpoints.                                *)
(***************************************************************************)
\* kv.hset('econ:users', { [id]: name })
HSet(h, id, name) == [x \in DOMAIN h \cup {id} |-> IF x = id THEN name ELSE h[x]]

\* kv.hdel('econ:users', id)
HDel(h, id) == [x \in DOMAIN h \ {id} |-> h[x]]

\* username || 'unknown'
DisplayName(username) == IF username = "" THEN "unknown" ELSE username

\* chatIdStr.includes('{') || chatIdStr.includes('}') || chatIdStr.includes('user.')
LooksTemplated(id) ==
    LET cs == Chars(id)
    IN Includes(cs, <<"{">>) \/ Includes(cs, <<"}">>) \/ Includes(cs, <<"u","s","e","r",".">>)

\* the validation of the subscribe handler: the status it answers with
SubscribeStatus(id) ==
    IF id = "" THEN 400
    ELSE IF LooksTemplated(id) THEN 400
    ELSE IF ~IsNumericId(id) THEN 400
    ELSE 200

\* subscribe handler that validates chat_id ("" stands for a missing field)
Subscribe(id, username) ==
    /\ call' = [op |-> "subscribe", id |-> id, status |-> SubscribeStatus(id)]
    /\ ncalls' = ncalls + 1
    /\ IF SubscribeStatus(id) = 200
       THEN /\ kvSubs' = kvSubs \cup {id}
            /\ kvUsers' = HSet(kvUsers, id, DisplayName(username))
       ELSE UNCHANGED <<kvSubs, kvUsers>>
    /\ UNCHANGED <<clock, lastApiCall, kvManual, kvApiCache, kvUpcoming, kvSent,
                   kvSubKeys, run, nruns, nticks, req, nreqs, inflight>>

\* subscribe handler that only requires chat_id to be present
SubscribeUnvalidated(id, username) ==
    /\ call' = [op |-> "subscribe", id |-> id, status |-> IF id = "" THEN 400 ELSE 200]
    /\ ncalls' = ncalls + 1
    /\ IF id # ""
       THEN /\ kvSubs' = kvSubs \cup {id}
            /\ kvUsers' = HSet(kvUsers, id, DisplayName(username))
       ELSE UNCHANGED <<kvSubs, kvUsers>>
    /\ UNCHANGED <<clock, lastApiCall, kvManual, kvApiCache, kvUpcoming, kvSent,
                   kvSubKeys, run, nruns, nticks, req, nreqs, inflight>>

\* unsubscribe handler: srem, hdel
Unsubscribe(id) ==
    /\ call' = [op |-> "unsubscribe", id |-> id, status |-> IF id = "" THEN 400 ELSE 200]
    /\ ncalls' = ncalls + 1
    /\ IF id # ""
       THEN /\ kvSubs' = kvSubs \ {id}
            /\ kvUsers' = HDel(kvUsers, id)
       ELSE UNCHANGED <<kvSubs, kvUsers>>
    /\ UNCHANGED <<clock, lastApiCall, kvManual, kvApiCache, kvUpcoming, kvSent,
                   kvSubKeys, run, nruns, nticks, req, nreqs, inflight>>

ChatIds   == {"", IdA, IdTpl, IdTxt}
Usernames == {"", "ali"}

InitSubscribers ==
    /\ clock = Epoch0
    /\ lastApiCall = 0
    /\ kvSubs = {}
    /\ kvUsers = [id \in {} |-> "unknown"]
    /\ kvManual = <<>>
    /\ kvApiCache = <<>>
    /\ kvUpcoming = <<>>
    /\ kvSent = {}
    /\ run = [p \in Procs |-> IdleRun]
    /\ nruns = 0
    /\ nticks = 0
    /\ call = NoCall
    /\ ncalls = 0
    /\ kvSubKeys = {}
    /\ req = NoReq
    /\ nreqs = 0
    /\ inflight = [p \in Procs |-> NoFlight]

NextSubscribers ==
    \/ ncalls < MaxCalls /\ \E id \in ChatIds, u \in Usernames : Subscribe(id, u)
    \/ ncalls < MaxCalls /\ \E id \in ChatIds, u \in Usernames : SubscribeUnvalidated(id, u)
    \/ ncalls < MaxCalls /\ \E id \in ChatIds : Unsubscribe(id)

SpecSubscribers == InitSubscribers /\ [][NextSubscribers]_vars

(***************************************************************************)
(* Subscribe and unsubscribe requests handled at the same time: each store *)
(* call of a handler is a step, and the steps of two requests interleave.  *)
(***************************************************************************)
\* subscribe: the validation, then await kv.sadd('econ:subs', chatIdStr)
SubscribeSAdd(p, id, username) ==
    /\ inflight[p].pc \in {"idle", "done"}
    /\ ncalls' = ncalls + 1
    /\ IF SubscribeStatus(id) = 200
       THEN /\ kvSubs' = kvSubs \cup {id}
            /\ inflight' = [inflight EXCEPT ![p] =
                              [NoFlight EXCEPT !.op = "subscribe", !.id = id,
                                               !.name = DisplayName(username), !.pc = "hset"]]
       ELSE /\ kvSubs' = kvSubs
            /\ inflight' = [inflight EXCEPT ![p] =
                              [NoFlight EXCEPT !.op = "subscribe", !.id = id,
                                               !.pc = "done", !.status = 400]]
    /\ UNCHANGED <<clock, lastApiCall, kvUsers, kvManual, kvApiCache, kvUpcoming, kvSent,
                   kvSubKeys, run, nruns, nticks, call, req, nreqs>>

\* await kv.hset('econ:users', { [chatIdStr]: username || 'unknown' })
SubscribeHSet(p) ==
    /\ inflight[p].pc = "hset"
    /\ kvUsers' = HSet(kvUsers, inflight[p].id, inflight[p].name)
    /\ inflight' = [inflight EXCEPT ![p].pc = "scard"]
    /\ UNCHANGED <<clock, lastApiCall, kvSubs, kvManual, kvApiCache, kvUpcoming, kvSent,
                   kvSubKeys, run, nruns, nticks, call, ncalls, req, nreqs>>

\* unsubscribe: chat_id required, then await kv.srem('econ:subs', chatIdStr)
UnsubscribeSRem(p, id) ==
    /\ inflight[p].pc \in {"idle", "done"}
    /\ ncalls' = ncalls + 1
    /\ IF id # ""
       THEN /\ kvSubs' = kvSubs \ {id}
            /\ inflight' = [inflight EXCEPT ![p] =
                              [NoFlight EXCEPT !.op = "unsubscribe", !.id = id, !.pc = "hdel"]]
       ELSE /\ kvSubs' = kvSubs
            /\ inflight' = [inflight EXCEPT ![p] =
                              [NoFlight EXCEPT !.op = "unsubscribe", !.id = id,
                                               !.pc = "done", !.status = 400]]
    /\ UNCHANGED <<clock, lastApiCall, kvUsers, kvManual, kvApiCache, kvUpcoming, kvSent,
                   kvSubKeys, run, nruns, nticks, call, req, nreqs>>

\* await kv.hdel('econ:users', chatIdStr); a templated id is answered here
UnsubscribeHDel(p) ==
    /\ inflight[p].pc = "hdel"
    /\ kvUsers' = HDel(kvUsers, inflight[p].id)
    /\ inflight' = [inflight EXCEPT ![p] =
                      IF Includes(Chars(@.id), <<"{">>) \/ Includes(Chars(@.id), <<"}">>)
                      THEN [@ EXCEPT !.pc = "done", !.status = 200]
                      ELSE [@ EXCEPT !.pc = "scard"]]
    /\ UNCHANGED <<clock, lastApiCall, kvSubs, kvManual, kvApiCache, kvUpcoming, kvSent,
                   kvSubKeys, run, nruns, nticks, call, ncalls, req, nreqs>>

\* const count = await kv.scard('econ:subs'); res.json({ ok: true, subscribers: count })
AnswerCount(p) ==
    /\ inflight[p].pc = "scard"
    /\ inflight' = [inflight EXCEPT ![p] =
                      [@ EXCEPT !.pc = "done", !.status = 200, !.count = Cardinality(kvSubs)]]
    /\ UNCHANGED <<clock, lastApiCall, kv, run, nruns, nticks, call, ncalls, req, nreqs>>

ConcurrentIds == {"", IdA, IdB, IdTpl}

InitConcurrent ==
    /\ clock = Epoch0
    /\ lastApiCall = 0
    /\ kvSubs \in { {}, {IdA} }
    /\ kvUsers = [id \in kvSubs |-> "unknown"]
    /\ kvManual = <<>>
    /\ kvApiCache = <<>>
    /\ kvUpcoming = <<>>
    /\ kvSent = {}
    /\ run = [p \in Procs |-> IdleRun]
    /\ nruns = 0
    /\ nticks = 0
    /\ call = NoCall
    /\ ncalls = 0
    /\ kvSubKeys = {}
    /\ req = NoReq
    /\ nreqs = 0
    /\ inflight = [p \in Procs |-> NoFlight]

NextConcurrent ==
    \/ ncalls < MaxCalls /\ \E p \in Procs, id \in ConcurrentIds, u \in Usernames :
                               SubscribeSAdd(p, id, u)
    \/ \E p \in Procs : SubscribeHSet(p)
    \/ ncalls < MaxCalls /\ \E p \in Procs, id \in ConcurrentIds : UnsubscribeSRem(p, id)
    \/ \E p \in Procs : UnsubscribeHDel(p)
    \/ \E p \in Procs : AnswerCount(p)

SpecConcurrent == InitConcurrent /\ [][NextConcurrent]_vars


(***************************************************************************)
(* api/econ/upcoming.js: the public preview endpoint.                      *)
(***************************************************************************)
DayMs == 86400000           \* 24 * 60 * 60 * 1000
DefaultPreview == 5

\* q.get('limit') ? Math.max(1, Number(q.get('limit'))) : 5
PreviewLimit(q) == IF q = <<>> THEN DefaultPreview ELSE Max(1, q[1])

\* Array.isArray(cache?.items) ? cache.items : [], cache null when the read throws
CachedItems(readOk, t) ==
    IF readOk /\ Live(kvUpcoming, t) THEN kvUpcoming[1].items ELSE <<>>

\* the fallback: every stored event of the next 24 hours, in time order
PreviewFallback(t) == SortByTs(ParseManual(kvManual, t, t + DayMs))

PreviewFaults == {"none", "cache_read", "manual_read"}

\* The handler reads the cache, falls back to econ:manual when the cached
\* list is empty, and answers; it writes nothing.
Upcoming(q, fault) ==
    LET cached   == CachedItems(fault # "cache_read", clock)
        fallback == cached = <<>>
        throws   == fallback /\ fault = "manual_read"
        items    == IF throws THEN <<>>
                    ELSE Take(IF fallback THEN PreviewFallback(clock) ELSE cached,
                              PreviewLimit(q))
    IN /\ req' = [NoReq EXCEPT !.op = "upcoming", !.at = clock,
                                 !.status = IF throws THEN 500 ELSE 200,
                                 !.items = items, !.readManual = fallback]
       /\ nreqs' = nreqs + 1
       /\ UNCHANGED <<clock, lastApiCall, kv, run, nruns, nticks, call, ncalls, inflight>>

(***************************************************************************)
(* api/econ/admin/add.js: the admin endpoint that stores manual events.    *)
(***************************************************************************)
\* The age beyond which stored events are pruned.  The handler uses ninety
\* days, 90 * 24 * 3600 * 1000 ms, which is beyond the integers of the model
\* checker; the model uses ten days, with the same arithmetic.
PruneAge == 864000000

\* (mutant) the date is not parsed before the candidate is accepted
ValidCandidateAnyDate(ev) == ev.country # "" /\ ev.event # "" /\ ev.date # NoDate

\* ev && ev.country && ev.event && ev.date, and Date.parse(ev.date) finite
ValidCandidate(ev) ==
    /\ ev.country # "" /\ ev.event # "" /\ ev.date # NoDate
    /\ IsFinite(DateParse(ev.date))

\* the member stored for a candidate: date is new Date(ts).toISOString()
Clean(ev) ==
    [country |-> ev.country, event |-> ev.event, date |-> IsoDate(DateParse(ev.date)),
     forecast |-> ev.forecast, previous |-> ev.previous]

\* toAdd, in the order of the batch
ToAdd(batch) == LET C == SelectSeq(batch, ValidCandidate) IN [k \in 1..Len(C) |-> Clean(C[k])]

Score(m) == DateParse(m.date)

\* kv.zremrangebyscore('econ:manual', lo, hi)
\* (mutant) the pruning call is left out
ZRemRangeByScoreNone(z, lo, hi) == z

ZRemRangeByScore(z, lo, hi) ==
    LET Kept(m) == Score(m) < lo \/ Score(m) > hi IN SelectSeq(z, Kept)

\* kv.zadd of one member: a member already there is left where it is
RECURSIVE ZInsert(_, _)
ZInsert(z, m) ==
    IF \E k \in 1..Len(z) : z[k] = m THEN z
    ELSE IF z = <<>> THEN <<m>>
    ELSE IF Score(Head(z)) <= Score(m) THEN <<Head(z)>> \o ZInsert(Tail(z), m)
    ELSE <<m>> \o z

RECURSIVE ZAdd(_, _)
ZAdd(z, ms) == IF ms = <<>> THEN z ELSE ZAdd(ZInsert(z, Head(ms)), Tail(ms))

\* the number of new members zadd reports
Added(z, ms) == Len(ZAdd(z, ms)) - Len(z)

\* What can go wrong in the store: zremrangebyscore throws, or zadd throws
\* after the pruning was done.
AddFaults == {"none", "prune", "add"}

AdminAdd(method, h, batch, fault) ==
    LET toAdd  == ToAdd(batch)
        cutoff == clock - PruneAge
        pruned == ZRemRangeByScore(kvManual, 0, cutoff)
        st     == IF method = "OPTIONS" THEN 200
                  ELSE IF method # "POST" THEN 405
                  ELSE IF ~Authorized(h) THEN 401
                  ELSE IF toAdd = <<>> THEN 400
                  ELSE IF fault # "none" THEN 500
                  ELSE 200
        stores == method = "POST" /\ Authorized(h) /\ toAdd # <<>>
    IN /\ req' = [NoReq EXCEPT !.op = "admin_add", !.method = method, !.auth = h,
                                !.batch = batch, !.at = clock, !.status = st,
                                !.items = IF stores /\ st = 200 THEN toAdd ELSE <<>>,
                                !.accepted = IF stores /\ st = 200 THEN Len(toAdd) ELSE 0,
                                !.pruned = IF stores /\ fault # "prune"
                                           THEN Len(kvManual) - Len(pruned) ELSE 0]
       /\ nreqs' = nreqs + 1
       /\ kvManual' = IF ~stores \/ fault = "prune" THEN kvManual
                      ELSE IF fault = "add" THEN pruned
                      ELSE ZAdd(pruned, toAdd)
       /\ UNCHANGED <<clock, lastApiCall, kvSubs, kvUsers, kvApiCache, kvUpcoming, kvSent,
                      kvSubKeys, run, nruns, nticks, call, ncalls, inflight>>

(***************************************************************************)
(* api/cleanup.js: removal of the subscribers that are not numeric.        *)
(***************************************************************************)
\* chatIdStr.includes('{') || chatIdStr.includes('}') || !/^\d+$/.test(chatIdStr)
CleanupRemoves(id) ==
    LET cs == Chars(id)
    IN Includes(cs, <<"{">>) \/ Includes(cs, <<"}">>) \/ ~IsNumericId(id)

Cleanup(h) ==
    LET gone == IF Authorized(h) THEN {id \in kvSubs : CleanupRemoves(id)} ELSE {}
    IN /\ req' = [NoReq EXCEPT !.op = "cleanup", !.auth = h, !.at = clock,
                                !.status = IF Authorized(h) THEN 200 ELSE 401,
                                !.accepted = Cardinality(gone)]
       /\ nreqs' = nreqs + 1
       /\ kvSubs' = kvSubs \ gone
       /\ kvUsers' = [id \in DOMAIN kvUsers \ gone |-> kvUsers[id]]
       /\ UNCHANGED <<clock, lastApiCall, kvManual, kvApiCache, kvUpcoming, kvSent,
                      kvSubKeys, run, nruns, nticks, call, ncalls, inflight>>

(***************************************************************************)
(* The Telegram webhook.  An exception that leaves the handler is answered *)
(* by the platform with a 500.                                             *)
(***************************************************************************)
\* The texts of the messages the model sends to the webhook.
WebhookTexts == {"/econ_on", "/econ_off", "/econ_test", "/econ_subs", "/start",
                 "/econ_upcoming", "hello"}

\* What can go wrong while the webhook handles a message: the store call
\* throws, or fetch rejects (it resolves on any HTTP status).
WebhookFaults == {"none", "http_error", "store", "network_error"}

\* the commands of the handler with /econ_on and /econ_off
StoreCommands == {"/econ_on", "/econ_off", "/econ_subs"}
ReplyCommands == {"/econ_on", "/econ_off", "/econ_test", "/econ_subs", "/start"}

\* the handler that keeps a key sub:<chat> per subscribed chat
Webhook(kind, chat, text, fault) ==
    LET handled  == kind = "message"
        storeErr == handled /\ text \in StoreCommands /\ fault = "store"
        sendErr  == handled /\ text \in ReplyCommands /\ fault = "network_error"
    IN /\ req' = [NoReq EXCEPT !.op = "webhook", !.arg = IF handled THEN text ELSE kind,
                                !.chat = IF handled THEN chat ELSE "", !.at = clock,
                                !.status = IF storeErr \/ sendErr THEN 500 ELSE 200]
       /\ nreqs' = nreqs + 1
       /\ kvSubKeys' = IF ~handled \/ storeErr THEN kvSubKeys
                       ELSE IF text = "/econ_on" THEN kvSubKeys \cup {chat}
                       ELSE IF text = "/econ_off" THEN kvSubKeys \ {chat}
                       ELSE kvSubKeys
       /\ UNCHANGED <<clock, lastApiCall, kvSubs, kvUsers, kvManual, kvApiCache, kvUpcoming,
                      kvSent, run, nruns, nticks, call, ncalls, inflight>>

\* the commands of api/telegram.js
TelegramCommands == {"/econ_test", "/econ_upcoming", "/start"}

\* api/telegram.js: /econ_upcoming catches a failed read and reports it with
\* another send; no send is itself guarded
Telegram(kind, chat, text, fault) ==
    LET handled == kind = "message"
        cached  == CachedItems(fault # "store", clock)
        reads   == handled /\ text = "/econ_upcoming" /\ cached = <<>>
        sendErr == handled /\ text \in TelegramCommands /\ fault = "network_error"
    IN /\ req' = [NoReq EXCEPT !.op = "telegram", !.arg = IF handled THEN text ELSE kind,
                                !.chat = IF handled THEN chat ELSE "", !.at = clock,
                                !.status = IF sendErr THEN 500 ELSE 200,
                                !.readManual = reads]
       /\ nreqs' = nreqs + 1
       /\ UNCHANGED <<clock, lastApiCall, kv, run, nruns, nticks, call, ncalls, inflight>>

(***************************************************************************)
(* The endpoints around the pipeline, and one live invocation of it, on a  *)
(* store that is older than the pruning age.                                *)
(***************************************************************************)
Later == Epoch0 + PruneAge + MsPerMin

OldEvent  == ManualCPI
SoonEvent == Event("United States", TitleCoreCPI, IsoDate(Later + 30000))

\* Candidates of a batch sent to the admin endpoint.
Candidate(c, t, d) == [country |-> c, event |-> t, date |-> d, forecast |-> "0.3%", previous |-> Null]

CandGood      == Candidate("Japan", TitleRetailSales, IsoDate(Later + MsPerMin))
CandOffset    == Candidate("Germany", TitleCoreCPI, OffsetDate(Later + 121 * MsPerMin, 120))
CandBadDate   == Candidate("Japan", TitleCoreCPI, BadDate)
CandNoDate    == Candidate("Japan", TitleCoreCPI, NoDate)
CandNoCountry == Candidate("", TitleCoreCPI, IsoDate(Later + MsPerMin))
CandOld       == Candidate("Japan", TitleCoreCPI, IsoDate(Epoch0 + 30000))

Batches ==
    { <<>>, <<CandGood>>, <<CandBadDate>>, <<CandNoCountry, CandNoDate>>,
      <<CandBadDate, CandGood>>, <<CandOffset, CandNoDate>>, <<CandGood, CandOffset>>,
      <<CandOld, CandGood>> }

WebhookChats == {IdA}

\* Inbound webhook requests: not a POST, a body that is not JSON, an update
\* with no chat id, or a message of a chat.
Updates ==
    {[kind |-> k, chat |-> "", text |-> ""] : k \in {"get", "bad_json", "no_chat"}}
      \cup {[kind |-> "message", chat |-> c, text |-> t] : c \in WebhookChats, t \in WebhookTexts}

EndpointParams ==
    [dry : {"1"}, mode : {"major"}, minutes : {<<>>}, days : {<<>>},
     limit : {<<>>}, source : {"manual"}]

\* The requests to the admin endpoint: POSTs of every batch under the
\* secret, POSTs under the other headers, POSTs that meet a failing store,
\* and requests of other methods carrying a valid batch.
AddRequests ==
    [method : {"POST"}, auth : {ExpectedAuth}, batch : Batches, fault : {"none"}]
      \cup [method : {"POST"}, auth : AuthHeaders \ {ExpectedAuth},
            batch : {<<CandGood>>, <<CandNoCountry, CandNoDate>>}, fault : {"none"}]
      \cup [method : {"POST"}, auth : {ExpectedAuth},
            batch : {<<CandGood>>, <<CandBadDate>>}, fault : {"prune", "add"}]
      \cup [method : {"GET", "OPTIONS"}, auth : {"", ExpectedAuth},
            batch : {<<CandGood>>}, fault : {"none"}]

InitEndpoints ==
    /\ clock = Later
    /\ lastApiCall = 0
    /\ kvSubs \in { {}, {IdB, IdTpl} }
    /\ kvUsers = [id \in kvSubs |-> "unknown"]
    /\ kvManual \in { <<>>, <<OldEvent>>, <<SoonEvent>>, <<OldEvent, SoonEvent>> }
    /\ kvApiCache = <<>>
    /\ kvUpcoming = <<>>
    /\ kvSent = {}
    /\ run = [p \in Procs |-> IdleRun]
    /\ nruns = 0
    /\ nticks = 0
    /\ call = NoCall
    /\ ncalls = 0
    /\ kvSubKeys = {}
    /\ req = NoReq
    /\ nreqs = 0
    /\ inflight = [p \in Procs |-> NoFlight]

NextEndpoints ==
    \/ nreqs < MaxRequests /\ \E q \in {<<>>, <<1>>}, f \in PreviewFaults : Upcoming(q, f)
    \/ nreqs < MaxRequests /\ \E a \in AddRequests :
                                 AdminAdd(a.method, a.auth, a.batch, a.fault)
    \/ nreqs < MaxRequests /\ \E h \in AuthHeaders : Cleanup(h)
    \/ nruns = 0 /\ \E h \in AuthHeaders : CronUnauthorized(1, h)
    \/ nruns = 0 /\ \E q \in EndpointParams : CronRun(1, q, [kind |-> "nokey"], "none")
    \/ \E d \in TickSteps : Tick(d)

SpecEndpoints == InitEndpoints /\ [][NextEndpoints]_vars

(***************************************************************************)
(* The webhook and one live invocation of the pipeline.                    *)
(***************************************************************************)
WebhookParams ==
    [dry : {""}, mode : {"major"}, minutes : {<<>>}, days : {<<>>},
     limit : {<<>>}, source : {"manual"}]

InitWebhook ==
    /\ clock = Epoch0
    /\ lastApiCall = 0
    /\ kvSubs \in { {}, {IdB} }
    /\ kvUsers = [id \in kvSubs |-> "unknown"]
    /\ kvManual \in { <<>>, <<ManualCPI>> }
    /\ kvApiCache = <<>>
    /\ kvUpcoming = <<>>
    /\ kvSent = {}
    /\ run = [p \in Procs |-> IdleRun]
    /\ nruns = 0
    /\ nticks = 0
    /\ call = NoCall
    /\ ncalls = 0
    /\ kvSubKeys = {}
    /\ req = NoReq
    /\ nreqs = 0
    /\ inflight = [p \in Procs |-> NoFlight]

NextWebhook ==
    \/ nreqs < MaxRequests /\ \E u \in Updates, f \in WebhookFaults :
                                 Webhook(u.kind, u.chat, u.text, f)
    \/ nreqs < MaxRequests /\ \E u \in Updates, f \in WebhookFaults :
                                 Telegram(u.kind, u.chat, u.text, f)
    \/ nruns = 0 /\ \E q \in WebhookParams : CronRun(1, q, [kind |-> "nokey"], "none")
    \/ DedupeCheck(1, TRUE)
    \/ \E o \in SendOutcomes : SendOne(1, o)
    \/ MarkSent(1, TRUE)

SpecWebhook == InitWebhook /\ [][NextWebhook]_vars

(***************************************************************************)
(* Properties.                                                             *)
(***************************************************************************)
\* The dedupe keys of a run's filtered events.
FilteredKeys(r) == {DedupeKey(r.filtered[k]) : k \in 1..Len(r.filtered)}

\* The handler got past authorization, the token check and the subscriber check.
PastSubscribers(r) == r.pc # "idle" /\ r.validSubs # <<>>

\* The handler has answered 200 with its summary.
Answered(r) == r.pc = "done" /\ r.resp # <<>> /\ r.resp[1].status = 200

\* A step of process p that is the whole prelude of an invocation.
Begins(p) == run[p].pc \in {"idle", "done"} /\ run'[p] # run[p]

\* C1: with runs one after another and a store that does not fail, a send to
\* a subscriber is attempted only for an event whose dedupe key has no live
\* marker: once the marker is written and until it expires, no run sends the
\* event again, and a second run right after the first sends nothing for it.
C1_NoSendForMarkedEvent ==
    [][\A p \in Procs :
         \A pair \in run'[p].attempted \ run[p].attempted :
            ~\E m \in kvSent : m.key = pair[1] /\ m.exp > clock]_vars

\* a second, live run found every one of its events marked and sent nothing
C1_Witness ==
    /\ nruns = 2
    /\ Answered(run[1])
    /\ ~run[1].dry
    /\ run[1].filtered # <<>>
    /\ run[1].skipped = FilteredKeys(run[1])
    /\ run[1].attempted = {}
    /\ \A k \in FilteredKeys(run[1]) : \E m \in kvSent : m.key = k /\ m.exp > clock

\* C2: a run with dry=1 or dry=true, whatever its other inputs and the store,
\* writes no dedupe marker and attempts no send: it answers in one step.
C2_DryRunNeitherMarksNorSends ==
    [][\A p \in Procs :
         (run'[p] # run[p] /\ run'[p].dryParam \in {"1", "true"})
            => /\ kvSent' = kvSent
               /\ run'[p].attempted = {}
               /\ run'[p].pc = "done"]_vars

\* a dry=true run that had an unmarked event to send and a subscriber for it
C2_Witness ==
    /\ Answered(run[1])
    /\ run[1].dryParam = "true"
    /\ run[1].filtered # <<>>
    /\ run[1].validSubs # <<>>
    /\ \E k \in FilteredKeys(run[1]) : ~\E m \in kvSent : m.key = k
    /\ run[1].attempted = {}

C4_SentCountsSuccessfulSends ==
    \A p \in Procs :
       LET r == run[p] IN
       (Answered(r) /\ ~r.dry) =>
          /\ r.resp[1].sent = Cardinality(r.delivered)
          /\ r.delivered \subseteq r.attempted
          /\ r.attempted = (FilteredKeys(r) \ r.skipped)
                              \X {r.validSubs[j] : j \in 1..Len(r.validSubs)}
          /\ (Len(r.validSubs) = 1 /\ Len(r.filtered) = 1 /\ r.skipped = {}
                /\ r.delivered = r.attempted)
               => /\ r.resp[1].sent = 1
                  /\ \E m \in kvSent : m.key = DedupeKey(r.filtered[1]) /\ m.exp > clock
          /\ r.skipped = FilteredKeys(r) => r.resp[1].sent = 0

\* the second of two live runs, one subscriber, one event: the first run's
\* marker is live and the second reports sent = 0
C4_Witness ==
    /\ nruns = 2
    /\ Answered(run[1])
    /\ ~run[1].dry
    /\ Len(run[1].validSubs) = 1
    /\ Len(run[1].filtered) = 1
    /\ run[1].skipped = FilteredKeys(run[1])
    /\ run[1].resp = Summary(200, 0)
    /\ run[1].now = Epoch0

\* C5: when econ:subs holds no member made of digits only, an invocation,
\* whatever its parameters, answers at once: sent = 0 when it is authorized
\* and has its token, no upstream call, no send, and the store as it was.
C5_NoValidSubscriberNoEffect ==
    [][\A p \in Procs :
         (Begins(p) /\ \A id \in kvSubs :
                            \/ Chars(id) = <<>>
                            \/ \E c \in 1..Len(Chars(id)) : Chars(id)[c] \notin Digits)
            => /\ kv' = kv
               /\ lastApiCall' = lastApiCall
               /\ ~run'[p].fetched
               /\ run'[p].attempted = {}
               /\ run'[p].pc = "done"
               /\ run'[p].resp[1].status = 200 => run'[p].resp = Summary(200, 0)]_vars

\* an authorized run over a store whose only subscriber is a template
\* placeholder, with manual events at hand
C5_Witness ==
    /\ kvSubs = {IdTpl}
    /\ kvManual # <<>>
    /\ run[1].pc = "done"
    /\ run[1].resp = Summary(200, 0)
    /\ run[1].source = "provider"
    /\ kvUpcoming = <<>>

\* The events of the provider cache as the run left it.
CachedRows == IF kvApiCache = <<>> THEN <<>> ELSE kvApiCache[1].events

\* C6: the window is [now, now + windowMin * 60000], closed at both ends: the
\* manual events a run keeps are exactly the stored ones with a finite
\* instant in it, and the provider events it keeps are in it and are all
\* those of the provider data it used.
C6_WindowClosedAtBothEnds ==
    \A p \in Procs :
       LET r == run[p] IN
       PastSubscribers(r) =>
          /\ r.end = r.now + r.windowMin * 60000
          /\ \A k \in 1..Len(r.manualEvents) :
                r.now <= r.manualEvents[k].ts /\ r.manualEvents[k].ts <= r.end
          /\ \A k \in 1..Len(kvManual) :
                LET ts == DateParse(kvManual[k].date) IN
                (ts # NaN /\ r.now <= ts /\ ts <= r.end)
                   => \E n \in 1..Len(r.manualEvents) : r.manualEvents[n].ts = ts
                          /\ r.manualEvents[n].event = kvManual[k].event
                          /\ r.manualEvents[n].country = kvManual[k].country
          /\ \A k \in 1..Len(r.providerEvents) :
                LET ts == DateParse(r.providerEvents[k].date) IN
                ts # NaN /\ r.now <= ts /\ ts <= r.end
          /\ (r.source = "provider" /\ r.providerUsed # "none") =>
                \A k \in 1..Len(CachedRows) :
                   LET ts == DateParse(CachedRows[k].date) IN
                   (ts # NaN /\ r.now <= ts /\ ts <= r.end)
                      => \E n \in 1..Len(r.providerEvents) :
                            r.providerEvents[n] = CachedRows[k]

\* a one-minute window: events at exactly now and at exactly end are kept,
\* from the manual store and from the provider, and the provider event one
\* millisecond after end is not
C6_Witness ==
    LET r == run[1] IN
    /\ PastSubscribers(r)
    /\ r.windowMin = 1
    /\ \E k \in 1..Len(r.manualEvents) : r.manualEvents[k].ts = r.now
    /\ \E k \in 1..Len(r.manualEvents) : r.manualEvents[k].ts = r.end
    /\ \E k \in 1..Len(r.providerEvents) : DateParse(r.providerEvents[k].date) = r.now
    /\ \E k \in 1..Len(r.providerEvents) : DateParse(r.providerEvents[k].date) = r.end
    /\ \E k \in 1..Len(CachedRows) : DateParse(CachedRows[k].date) = r.end + 1
    /\ \A k \in 1..Len(r.providerEvents) : DateParse(r.providerEvents[k].date) # r.end + 1

\* C7, as stated: an event whose date does not parse is dropped silently: it is
\* in no filtered list and no cached list, and the run completes normally.
C7_UnparseableDateDroppedSilently ==
    \A p \in Procs :
       LET r == run[p] IN
       /\ \A k \in 1..Len(r.filtered) : DateParse(r.filtered[k].date) # NaN
       /\ kvUpcoming # <<>> =>
             \A k \in 1..Len(kvUpcoming[1].items) : DateParse(kvUpcoming[1].items[k].date) # NaN
       /\ (PastSubscribers(r) /\ r.pc = "done") => r.resp[1].status = 200

\* C8, as stated: in mode=major "Retail Sales m/m" does not survive the filter.
C8_RetailSalesDroppedInMajor ==
    \A p \in Procs :
       run[p].mode = "major" =>
          \A k \in 1..Len(run[p].filtered) : run[p].filtered[k].event # "Retail Sales m/m"

\* The in-window events of a run, before the filter.
Candidates(r) ==
    LET Row(ev) == [country |-> ev.country, event |-> ev.event, date |-> ev.date]
    IN {Row(r.providerEvents[k]) : k \in 1..Len(r.providerEvents)}
          \cup {Row(r.manualEvents[k]) : k \in 1..Len(r.manualEvents)}

Titled(r, c) == \E k \in 1..Len(r.filtered) :
                   r.filtered[k].event = c.event /\ r.filtered[k].country = c.country
                      /\ r.filtered[k].date = c.date

SixCountries ==
    {"United States", "China", "Japan", "Germany", "United Kingdom", "Euro Area"}

\* C8, amended: of the in-window events from allow-listed countries, in
\* mode=major those titled "Core CPI y/y" and those titled "Retail Sales m/m"
\* both survive the keyword filter (RETAIL and SALES are keywords) and one
\* titled "Housing Starts" does not; in mode=all all three survive.  (An
\* event survives up to the limit.)
C8_KeywordFilter ==
    \A p \in Procs :
       LET r == run[p] IN
       (PastSubscribers(r) /\ r.resp # Failure(500, "Invalid time value")) =>
          /\ Len(r.filtered) < r.limit =>
                \A c \in Candidates(r) :
                   (c.country \in SixCountries
                      /\ (r.mode = "all" \/ c.event \in {"Core CPI y/y", "Retail Sales m/m"}))
                     => Titled(r, c)
          /\ r.mode = "major" =>
                \A k \in 1..Len(r.filtered) : r.filtered[k].event # "Housing Starts"

\* a mode=major run that had all three titles in its window and kept the
\* CPI and the retail sales events
C8_Witness ==
    LET r == run[1] IN
    /\ PastSubscribers(r)
    /\ r.mode = "major"
    /\ \E c \in Candidates(r) : c.event = "Housing Starts" /\ c.country \in SixCountries
    /\ \E k \in 1..Len(r.filtered) : r.filtered[k].event = "Retail Sales m/m"
    /\ \E k \in 1..Len(r.filtered) : r.filtered[k].event = "Core CPI y/y"

\* C9: no event of a country outside the allow-list is in the filtered list,
\* in mode=major and in mode=all alike, whatever its title.
C9_CountryAllowListInBothModes ==
    \A p \in Procs :
       \A k \in 1..Len(run[p].filtered) : run[p].filtered[k].country \in SixCountries

\* a mode=all run with an in-window event from Brazil and a non-empty
\* filtered list
C9_Witness ==
    LET r == run[1] IN
    /\ PastSubscribers(r)
    /\ r.mode = "all"
    /\ \E k \in 1..Len(r.manualEvents) : r.manualEvents[k].country = "Brazil"
    /\ r.filtered # <<>>
    /\ Len(r.filtered) < r.limit

\* C10, as stated: after a subscribe call the subscriber set holds the id iff
\* the id is made of digits only, and a call with any other id is answered
\* with an error and leaves the set and the display names as they were.
C10_SubscribeValidatesId ==
    [][(ncalls' # ncalls /\ call'.op = "subscribe") =>
          LET id == call'.id
              numeric == Chars(id) # <<>> /\ \A c \in 1..Len(Chars(id)) : Chars(id)[c] \in Digits
          IN /\ id \in kvSubs' <=> numeric
             /\ ~numeric => /\ call'.status = 400
                            /\ kvSubs' = kvSubs
                            /\ kvUsers' = kvUsers]_vars


\* The stored events with a finite instant in the 24 hours from t.
Within24h(t) ==
    LET In(m) == DateParse(m.date) # NaN /\ t <= DateParse(m.date)
                    /\ DateParse(m.date) <= t + 86400000
    IN SelectSeq(kvManual, In)

\* C11, as stated: a call of the upcoming endpoint that finds the cache empty
\* or expired and one stored event within the next 24 hours returns that
\* event; the call after it, made within the cache TTL, returns the same
\* event from the cache and does not read econ:manual.
C11_SecondPreviewServedFromCache ==
    [][(nreqs' # nreqs /\ req'.op = "upcoming" /\ req'.status = 200) =>
          /\ ((kvUpcoming = <<>> \/ kvUpcoming[1].exp <= clock) /\ Len(Within24h(clock)) = 1)
                => /\ Len(req'.items) = 1
                   /\ req'.items[1].event = Within24h(clock)[1].event
                   /\ req'.items[1].date = Within24h(clock)[1].date
          /\ (req.op = "upcoming" /\ req.status = 200 /\ req.readManual
                /\ Len(req.items) = 1 /\ clock - req.at < 3600 * 1000)
                => /\ ~req'.readManual
                   /\ req'.items = req.items]_vars

\* The subscribers a run sends to.
SubsOf(r) == {r.validSubs[j] : j \in 1..Len(r.validSubs)}

\* C12: once a run is in its send loop nothing stops it: whatever sends fail
\* and whatever marker reads and writes fail, it answers 200 with its
\* summary, it has attempted the send of every event it did not find marked
\* to every subscriber, and `sent` is the number of sends that succeeded.
C12_SendLoopFailuresDoNotEscape ==
    \A p \in Procs :
       LET r == run[p] IN
       (r.i >= 1 /\ r.pc = "done") =>
          /\ r.resp = Summary(200, Cardinality(r.delivered))
          /\ r.attempted = (FilteredKeys(r) \ r.skipped) \X SubsOf(r)
          /\ r.delivered \subseteq r.attempted

\* two events, two subscribers: the first send failed, a marker call failed,
\* and the other subscriber and the next event were still served
C12_Witness ==
    LET r == run[1] IN
    /\ r.pc = "done"
    /\ Len(r.filtered) = 2 /\ Len(r.validSubs) = 2
    /\ r.kvFailed
    /\ <<DedupeKey(r.filtered[1]), r.validSubs[1]>> \in r.attempted \ r.delivered
    /\ <<DedupeKey(r.filtered[1]), r.validSubs[2]>> \in r.delivered
    /\ <<DedupeKey(r.filtered[2]), r.validSubs[1]>> \in r.delivered
    /\ r.resp = Summary(200, 3)

\* C13, as stated: no failing store read makes a run answer 500: the read is
\* taken as empty.
C13_StoreReadFailureIsEmptyResult ==
    \A p \in Procs : run[p].resp # Failure(500, "kv_error")


\* C14, as stated: a request to the pipeline, the admin add endpoint or the
\* cleanup endpoint whose Authorization header is missing or is not "Bearer "
\* and the secret is answered 401, and changes nothing.
C14_UnauthorizedAnswered401 ==
    [][(nreqs' # nreqs /\ req'.op \in {"admin_add", "cleanup"} /\ req'.auth # "Bearer s3cret")
           => /\ req'.status = 401
              /\ kv' = kv /\ lastApiCall' = lastApiCall /\ run' = run]_vars

\* C14, amended: such a request changes nothing in the store, makes no
\* provider call and sends nothing; it is answered 401 by the pipeline, by
\* the cleanup endpoint and by the admin add endpoint when it is a POST,
\* while the admin add endpoint answers the method first: 200 to OPTIONS and
\* 405 to any other method that is not POST.
C14_UnauthorizedHasNoEffect ==
    [][/\ (nreqs' # nreqs /\ req'.op \in {"admin_add", "cleanup"} /\ req'.auth # "Bearer s3cret")
           => /\ req'.status = IF req'.op = "cleanup" \/ req'.method = "POST" THEN 401
                               ELSE IF req'.method = "OPTIONS" THEN 200
                               ELSE 405
              /\ kv' = kv /\ lastApiCall' = lastApiCall /\ run' = run
       /\ \A p \in Procs :
            (Begins(p) /\ run'[p].auth # "Bearer s3cret")
               => /\ run'[p].resp = Failure(401, "unauthorized")
                  /\ run'[p].pc = "done"
                  /\ kv' = kv /\ lastApiCall' = lastApiCall
                  /\ ~run'[p].fetched /\ run'[p].attempted = {}]_vars

\* a POST of a valid candidate under a wrong secret was turned away with an
\* invalid subscriber and an old event still in the store, after a pipeline
\* request with no header was turned away
C14_Witness ==
    /\ req.op = "admin_add" /\ req.method = "POST" /\ req.auth = "Bearer wrong"
    /\ req.batch = <<CandGood>> /\ req.status = 401
    /\ IdTpl \in kvSubs /\ kvManual = <<OldEvent>>
    /\ run[1].pc = "done" /\ run[1].auth = "" /\ run[1].resp = Failure(401, "unauthorized")
    /\ kvUpcoming = <<>>

\* The instant of a candidate's date, when it has one.
HasInstant(c) == "iso" \in DOMAIN c.date \/ "local" \in DOMAIN c.date
InstantOf(c) == IF "iso" \in DOMAIN c.date THEN c.date.iso
                ELSE c.date.local - c.date.offset * 60000

Acceptable(c) == c.country # "" /\ c.event # "" /\ HasInstant(c)

StoredFor(m, c) ==
    /\ m.country = c.country /\ m.event = c.event
    /\ m.date = [iso |-> InstantOf(c)]
    /\ m.forecast = c.forecast /\ m.previous = c.previous

\* C15: an authorized POST to the admin add endpoint, the store answering,
\* whose batch has no candidate with country,
\* event and a date that parses is answered 400 and leaves econ:manual as it
\* was; otherwise the store gains exactly the valid candidates, each with its
\* date as the ISO-UTC string of its instant and placed by that instant, and
\* the answer counts the candidates accepted.
C15_AdminAddKeepsValidCandidates ==
    [][(nreqs' # nreqs /\ req'.op = "admin_add" /\ req'.method = "POST"
          /\ req'.auth = "Bearer s3cret" /\ req'.status # 500) =>
          LET b  == req'.batch
              ok == {k \in 1..Len(b) : Acceptable(b[k])}
          IN IF ok = {}
             THEN req'.status = 400 /\ kvManual' = kvManual
             ELSE /\ req'.status = 200
                  /\ req'.accepted = Cardinality(ok)
                  /\ \A k \in ok : \E n \in 1..Len(kvManual') : StoredFor(kvManual'[n], b[k])
                  /\ \A n \in 1..Len(kvManual') :
                        \/ \E o \in 1..Len(kvManual) : kvManual[o] = kvManual'[n]
                        \/ \E k \in ok : StoredFor(kvManual'[n], b[k])
                  /\ \A n \in 1..(Len(kvManual') - 1) :
                        kvManual'[n].date.iso <= kvManual'[n + 1].date.iso]_vars

\* a batch of a candidate dated with a UTC offset and a candidate with no
\* date: one accepted, stored under the ISO-UTC date of its instant
C15_Witness ==
    /\ req.op = "admin_add" /\ req.status = 200
    /\ req.batch = <<CandOffset, CandNoDate>>
    /\ req.accepted = 1
    /\ \E n \in 1..Len(kvManual) :
          kvManual[n].country = "Germany" /\ kvManual[n].date = [iso |-> Later + 60000]
    /\ \A n \in 1..Len(kvManual) : kvManual[n].date # NoDate

\* C16, as stated: the webhook answers 200 to every inbound request, also
\* when the store call or the reply send fails.
C16_WebhookAlwaysAnswers200 ==
    req.op \in {"webhook", "telegram"} => req.status = 200

\* C17, as stated: /econ_on puts the chat id into econ:subs, the set the
\* pipeline reads, so that the next run counts the chat among its
\* subscribers; /econ_off takes it out of that set.
C17_WebhookSubscribesForAlerts ==
    [][/\ (nreqs' # nreqs /\ req'.op = "webhook" /\ req'.status = 200)
           => /\ req'.arg = "/econ_on" => req'.chat \in kvSubs'
              /\ req'.arg = "/econ_off" => req'.chat \notin kvSubs'
       /\ \A p \in Procs :
            (Begins(p) /\ req.op = "webhook" /\ req.arg = "/econ_on" /\ req.status = 200
               /\ run'[p].resp # Failure(401, "unauthorized"))
               => req.chat \in SubsOf(run'[p])]_vars

\* The keys of a list of events, in the order of the list.
KeysOf(evs) == [k \in 1..Len(evs) |-> EventKey(evs[k])]

\* C18, as stated: the list a run writes to econ:cache:upcoming is the
\* filtered, sorted and limited list the run dispatches.
C18_CachedListIsDispatchedList ==
    \A p \in Procs :
       LET r == run[p] IN
       (Answered(r) /\ PastSubscribers(r) /\ kvUpcoming # <<>>)
          => KeysOf(kvUpcoming[1].items) = KeysOf(r.filtered)

\* C19, as stated: a send of an event to a subscriber that failed in one live
\* run is attempted again by a later live run that still has the event in
\* its window and the subscriber in its list.
C19_NextRunRetriesFailedSend ==
    (run[1].pc = "done" /\ Answered(run[2]) /\ ~run[1].dry /\ ~run[2].dry) =>
       \A pair \in run[1].attempted \ run[1].delivered :
          (pair[1] \in FilteredKeys(run[2]) /\ pair[2] \in SubsOf(run[2]))
             => pair \in run[2].attempted

\* C20, as stated: a run whose provider call fails (timeout, non-2xx answer,
\* a body that is not JSON or not an array) or that has no API key takes no
\* event from the provider and goes on to its normal summary: it does not
\* answer with an error.
C20_ProviderFailureIsNotFatal ==
    \A p \in Procs :
       LET r == run[p] IN
       r.upKind \in {"timeout", "http_error", "bad_json", "not_array", "nokey"}
          => /\ r.providerEvents = <<>>
             /\ r.pc = "done" => r.resp[1].status = 200

C28_NoCallWhileCacheIsFresh ==
    [][\A p \in Procs :
         (Begins(p) /\ run'[p].source = "provider" /\ run'[p].validSubs # <<>>
            /\ kvApiCache # <<>> /\ clock - kvApiCache[1].at < 3600000)
            => ~run'[p].fetched]_vars

\* C30, as stated: the items the upcoming endpoint returns are all scheduled
\* at or after the instant of the request.
C30_PreviewHasNoPastEvent ==
    (req.op = "upcoming" /\ req.status = 200) =>
       \A n \in 1..Len(req.items) : req.items[n].ts >= req.at

\* The reports a run combines, provider events first, each with its instant.
Combined(r) == StampAll(r.providerEvents) \o r.manualEvents

\* The start of the UTC minute an instant lies in.
MinuteStart(ts) == ts - (ts % 60000)

SameReport(a, b) == a.country = b.country /\ a.event = b.event

Holds(r, a) == \E k \in 1..Len(r.all) : r.all[k] = a

AbsDiff(x, y) == IF x >= y THEN x - y ELSE y - x

\* C23, as stated: two reports of one country and title less than a minute
\* apart have one dedupe key, so only one of them is in the merged list.
C23_JitterUnderAMinuteAbsorbed ==
    \A p \in Procs :
       LET r == run[p] IN
       PastSubscribers(r) =>
          \A i, j \in 1..Len(Combined(r)) :
             LET a == Combined(r)[i]
                 b == Combined(r)[j]
             IN (i < j /\ SameReport(a, b) /\ AbsDiff(a.ts, b.ts) < 60000)
                   => ~(Holds(r, a) /\ Holds(r, b))

\* C23, amended: two reports of one country and title have one dedupe key
\* exactly when their instants lie in the same UTC minute: of two such
\* reports only one is merged in, and a run alerts each key of its list at
\* most once.  Reports in different minutes, were they two seconds or a day
\* apart, are separate events with separate keys.
C23_SameMinuteSameKey ==
    \A p \in Procs :
       LET r == run[p] IN
       PastSubscribers(r) =>
          /\ \A i, j \in 1..Len(Combined(r)) :
                LET a == Combined(r)[i]
                    b == Combined(r)[j]
                IN (i < j /\ SameReport(a, b)) =>
                      IF MinuteStart(a.ts) = MinuteStart(b.ts)
                      THEN (a # b => ~(Holds(r, a) /\ Holds(r, b)))
                              /\ DedupeKey(a) = DedupeKey(b)
                      ELSE /\ DedupeKey(a) # DedupeKey(b)
                           /\ \E m, n \in 1..Len(r.all) :
                                 /\ m # n
                                 /\ SameReport(r.all[m], a) /\ SameReport(r.all[n], b)
                                 /\ MinuteStart(r.all[m].ts) = MinuteStart(a.ts)
                                 /\ MinuteStart(r.all[n].ts) = MinuteStart(b.ts)
          /\ \A m, n \in 1..Len(r.log) : m # n => r.log[m] # r.log[n]

\* a run merged two reports a second apart into one and kept the report of
\* the next minute apart, and alerted both keys
C23_Witness ==
    \E p \in Procs :
       LET r == run[p] IN
       /\ Answered(r) /\ Len(r.providerEvents) = 3 /\ Len(r.all) = 2
       /\ r.all[1].ts = Epoch0 + 31000 /\ r.all[2].ts = Epoch0 + 61000
       /\ Cardinality(r.delivered) = 2

Messages(r, pair) == Cardinality({n \in 1..Len(r.log) : r.log[n] = pair})

\* C21: when two runs overlap, a run sends at most one message for an
\* (event, subscriber) pair, so a pair gets at most two messages from two
\* overlapping runs; and a run whose marker read for an event comes after
\* the marker was written skips the event and sends nothing for it.
C21_OverlapSendsAtMostOncePerRun ==
    /\ [](\A p \in Procs :
            /\ \A n \in 1..Len(run[p].log) : Messages(run[p], run[p].log[n]) = 1
            /\ \A pair \in run[p].attempted : pair[1] \notin run[p].skipped)
    /\ [][\A p \in Procs :
            (run[p].pc = "check" /\ run'[p] # run[p]
               /\ MarkerLive(CurrentKey(run[p]), clock))
              => /\ run'[p].pc # "send"
                 /\ CurrentKey(run[p]) \in run'[p].skipped
                 /\ run'[p].log = run[p].log]_vars

\* both runs passed the marker check of the first event before either wrote
\* the marker, and both delivered it to the same subscriber; the run that
\* reached the second event after the other had marked it skipped it
C21_Witness ==
    /\ run[1].pc = "done" /\ run[2].pc = "done"
    /\ \E pair \in run[1].delivered \cap run[2].delivered :
          /\ Messages(run[1], pair) = 1 /\ Messages(run[2], pair) = 1
          /\ pair[1] = DedupeKey(Stamp(ManualCPI))
    /\ \E p \in Procs : DedupeKey(Stamp(ManualRetail)) \in run[p].skipped


\* An event that went through the window, country and keyword filters of a run.
Eligible(r, e) == Answered(r) /\ Holds(r, e) /\ PassesFilter(e, r.mode)

\* C27, as stated: with a valid subscriber, no failure and a live run with
\* the same parameters at every tick, an event that was eligible in the runs
\* made so far has been sent by one of them once its scheduled time is past.
C27_NoEligibleEventStarved ==
    \A n \in 1..Len(run[1].all) :
       LET e == run[1].all[n] IN
       (Eligible(run[1], e) /\ Eligible(run[2], e) /\ clock > e.ts)
          => \E p \in Procs, id \in kvSubs : <<DedupeKey(e), id>> \in run[p].delivered


\* C22, as stated: a run of a provider variant with dry=1 creates no dedupe
\* marker, and a live run that follows it sends the events it selects to
\* every subscriber.
C22_VariantDryRunLeavesNoMarker ==
    [][\A p \in Procs :
         (Begins(p) /\ run'[p].providerUsed \in Variants)
            => /\ run'[p].dryParam = "1" => kvSent' = kvSent
               /\ (~run'[p].dry /\ Answered(run'[p]) /\ run'[p].validSubs # <<>>
                     /\ run[3 - p].providerUsed \in Variants /\ run[3 - p].dryParam = "1"
                     /\ run[3 - p].filtered = run'[p].filtered)
                    => \A n \in 1..Len(run'[p].filtered), j \in 1..Len(run'[p].validSubs) :
                          <<VariantKey(run'[p].filtered[n]), run'[p].validSubs[j]>>
                             \in run'[p].delivered]_vars


\* C26, as stated: once the subscribe and unsubscribe requests under way
\* have all been answered, an id is a key of econ:users exactly when it is
\* a member of econ:subs.
C26_SubsAndUsersAgreeWhenQuiet ==
    (\A p \in Procs : inflight[p].pc \in {"idle", "done"})
       => \A id \in ConcurrentIds : id \in DOMAIN kvUsers <=> id \in kvSubs


\* C29, as stated: two calls to the provider made by invocations in the same
\* process start at least MIN_API_INTERVAL apart.
C29_CallsAtLeastIntervalApart ==
    \A p1, p2 \in Procs :
       (p1 # p2 /\ run[p1].fetched /\ run[p2].fetched)
          => AbsDiff(run[p1].calledAt, run[p2].calledAt) >= MIN_API_INTERVAL

=============================================================================
